---- MODULE Spec2Model ----
(***************************************************************************)
(* Landing-page drivers of softxoxo/laptop-animation: the typewriter       *)
(* headline (typePhrase), the button feedback (makeButtonClickable) and    *)
(* the falling-sprite world (initPhysics: pointer repulsion, checkReset).  *)
(* Each driver has its own specification over the shared variable list;    *)
(* a driver's specification leaves the other drivers' variables alone.     *)
(***************************************************************************)
EXTENDS Integers, Sequences, FiniteSets, TLC

VARIABLES
    op,            \* name of the handler that ran last ("init" after load)
    \* ---- typewriter (initTextAnimation) ----
    variant,       \* which typePhrase: "script" (script.js) or "suffix" (part_001)
    phraseIndex,   \* let phraseIndex
    charIndex,     \* let charIndex
    isDeleting,    \* let isDeleting
    textContent,   \* visible text of #typing-text, a sequence of characters
    twTimer,       \* the pending setTimeout of the chain, or NoTimer
    twFrame,       \* TRUE while requestAnimationFrame(typePhrase) is pending
    writes,        \* history: <<mode, length>> of each text write of the current phrase
    \* ---- button feedback (makeButtonClickable) ----
    dateNow,       \* Date.now(), in ms
    lastClickTime, \* let lastClickTime
    fastClick,     \* the elements that carry the class "fast-click"
    removeTimers,  \* due times of the pending removal timers of handleMouseUp
    downLog,       \* history: did the latest pointer-down apply the class, when was it last applied,
                   \* and is the button held (no pointer-up or pointer-leave since it was applied)
    \* ---- falling sprites (initPhysics) ----
    bodies,        \* body index -> [x, y, vx, vy, av]: position, velocity, angular velocity
    perfNow,       \* performance.now(), in ms
    lastTime,      \* let lastTime
    lastMousePos,  \* let lastMousePos
    isMouseInContainer, \* let isMouseInContainer
    pointerOver,   \* environment: the pointer is over the container
    applied,       \* body index -> force passed to Body.applyForce by the handler that ran last
    sample,        \* what the handler that ran last did with its mousemove event
    processedPos,  \* history: position of the latest processed mousemove sample
    physVariant,   \* which initPhysics: "script" (script.js), "part_001" or "script2" (script2.js)
    isDragging,    \* let isDragging (part_001)
    dragReleaseTimers, \* number of pending 50 ms timers of the mouseleave handler (part_001)
    enteredContainer,  \* history: the pointer has entered the container and has not left since
    topWallAdded,  \* let topWallAdded (script2.js)
    world,         \* the objects of engine.world: [walls, sprites, constraints, ceilings]
    frame,         \* what the checkReset run that ran last found and did
    clientSize,    \* container.clientWidth / container.clientHeight as of now
    walls,         \* ground, left and right wall: centre (in half pixels) and size
    canvasSize,    \* render.canvas.width / render.canvas.height
    resizeTimers,  \* the pending timers of the resize handler: ms until each is due
    resizeCleared, \* the handler that ran last was the resize listener and it cleared a pending timer
    resetFrames,   \* number of pending frame callbacks of checkReset
    runnerOn,      \* the runner steps the engine (Runner.run / Runner.stop)
    renderOn,      \* the renderer draws (Render.run / Render.stop)
    canvasInDom,   \* render.canvas is a child of the container
    teardown,      \* the returned closure: "none" (not called), "done" or "error"
    \* ---- scroll progress (calculateTransform / calculateProgress) ----
    calcInput,     \* [scrollPosition, startPosition, endPosition] of the latest call
    calcResult,    \* [transform, progress]: what the two functions returned for it
    \* ---- scroll driver (scroll listener, handleScroll) ----
    scrollTop,     \* window.pageYOffset
    ticking,       \* let ticking
    scrollFrames,  \* number of pending frame callbacks of the scroll listener
    lastScrollTop, \* let lastScrollTop
    sectionStyle,  \* section -> transform written by applyAnimation
    tryFreeVisible, \* the try-free button carries the class "visible"
    scrollEvents,  \* history: number of scroll events since the last rendered frame
    frameLog,      \* history: events before and handleScroll runs in the latest frame
    \* ---- sprite loader (initPhysics before the world is set up) ----
    imgState,      \* image -> "complete", "loading", "loaded" or "failed"
    resolved,      \* the images whose promise has resolved
    setupStarted,  \* initPhysics has continued after await Promise.all
    \* ---- driver initialization ----
    present,       \* the elements that exist on the page
    driver,        \* driver -> "pending", "started", "skipped" or "error"
    \* ---- background parallax (updateParallax) ----
    isMouseOverCanvas,  \* let isMouseOverCanvas
    targetBackgroundX,  \* let targetBackgroundX, in 1/LerpScale px
    targetBackgroundY,  \* let targetBackgroundY
    currentBackgroundX, \* let currentBackgroundX
    currentBackgroundY, \* let currentBackgroundY
    backgroundPosition, \* document.body.style.backgroundPosition: offsets [x, y]
    lerpSteps,     \* number of interpolation steps taken so far
    \* ---- cursor blink (blinkCursor) ----
    cursorVisible, \* let cursorVisible
    cursorStyle,   \* cursorElement.style.visibility: "" (not set), "visible" or "hidden"
    \* ---- section styling on wheel events (initAnimations of part_002) ----
    ueSection,     \* the section that is followed
    ueScroll,      \* window.scrollY
    ueStyle,       \* inline style of the section: [kind, at, opacity, children]
    ueTimers,      \* pending 500 ms timers of updateElement, oldest first: [kind, at]
    ueFades,       \* number of pending 300 ms timers that set the opacity to 1
    ueEvaluated,   \* the offset the latest updateParallax call was given, or -1
    \* ---- upgrade icons (initUpgradeAnimation) ----
    upVariant,     \* "script2" or "part_000" (part_002 has the code of part_000)
    isContainerVisible, \* let isContainerVisible
    upInst,        \* call -> closure [pc, currentIcon, isAnimating, activeIcons] and the
                   \* history field last: type and number of the icon the call created last
    upDom,         \* the upgrade-icon elements in the container
    upTimers,      \* part_000: pending timers [left, kind, type, index, number]
    \* ---- feed images (handleScroll of script2.js) ----
    feedOffset,    \* window.pageYOffset as the feed driver sees it
    feedTicking,   \* let ticking of the scroll listener
    feedClasses,   \* image index -> subset of {"visible", "hidden"}
    feedStyle      \* the other writes of handleScroll

twVars == <<variant, phraseIndex, charIndex, isDeleting, textContent, twTimer, twFrame, writes>>

btnVars == <<dateNow, lastClickTime, fastClick, removeTimers, downLog>>

\* The pointer-gating state of the part_001 variant and its history.
gateVars == <<physVariant, isDragging, dragReleaseTimers, enteredContainer>>

\* The world composite and the ceiling flag.
worldVars == <<topWallAdded, world, frame, resizeCleared>>

\* The state of the window resize handler.
resizeVars == <<clientSize, walls, canvasSize, resizeTimers>>

\* The reset loop, the runner, the renderer and the teardown closure.
lifeVars == <<resetFrames, runnerOn, renderOn, canvasInDom, teardown>>

physVars == <<bodies, perfNow, lastTime, lastMousePos, isMouseInContainer, pointerOver, applied, sample,
              processedPos, gateVars, worldVars, resizeVars, lifeVars>>

calcVars == <<calcInput, calcResult>>

\* The state of the page-level drivers (scroll, parallax, loader).
scrollVars == <<scrollTop, ticking, scrollFrames, lastScrollTop, sectionStyle, tryFreeVisible,
                scrollEvents, frameLog>>

loadVars == <<imgState, resolved, setupStarted>>

domVars == <<present, driver>>

parallaxVars == <<isMouseOverCanvas, targetBackgroundX, targetBackgroundY, currentBackgroundX,
                  currentBackgroundY, backgroundPosition, lerpSteps>>

cursorVars == <<cursorVisible, cursorStyle>>

\* The page-level state added after the parallax.
ueVars == <<ueSection, ueScroll, ueStyle, ueTimers, ueFades, ueEvaluated>>

upVars == <<upVariant, isContainerVisible, upInst, upDom, upTimers>>

feedVars == <<feedOffset, feedTicking, feedClasses, feedStyle>>

lateVars == <<upVars, feedVars>>

morePageVars == <<cursorVars, ueVars, lateVars>>

pageVars == <<calcVars, scrollVars, loadVars, domVars, parallaxVars, morePageVars>>

vars == <<op, twVars, btnVars, physVars, pageVars>>

(***************************************************************************)
(* Generic helpers                                                         *)
(***************************************************************************)
Min(a, b) == IF a < b THEN a ELSE b
Max(a, b) == IF a > b THEN a ELSE b

\* String.prototype.substring(a, b): both indices are clamped to
\* 0..length and swapped when a > b.
Substring(s, a, b) ==
    LET ca == Max(0, Min(a, Len(s)))
        cb == Max(0, Min(b, Len(s)))
    IN  SubSeq(s, Min(ca, cb) + 1, Max(ca, cb))

\* A substring that does not clamp its upper index to the string.
Substring_Unclamped(s, a, b) ==
    LET ca == Max(0, Min(a, Len(s)))
        cb == Max(0, Min(b - 1, Len(s)))
    IN  SubSeq(s, Min(ca, cb) + 1, Max(ca, cb))

\* Least 1-based index at which sep occurs in s, 0 when it does not occur.
IndexOf(s, sep) ==
    LET hits == {i \in 1..(Len(s) - Len(sep) + 1) : SubSeq(s, i, i + Len(sep) - 1) = sep}
    IN  IF hits = {} THEN 0 ELSE CHOOSE i \in hits : \A j \in hits : i <= j

\* s.split(sep)[0]
SplitFirst(s, sep) ==
    IF IndexOf(s, sep) = 0 THEN s ELSE SubSeq(s, 1, IndexOf(s, sep) - 1)

(***************************************************************************)
(* Typewriter driver                                                       *)
(* The phrases are transliterated letter by letter, so every phrase keeps  *)
(* its length.                                                             *)
(***************************************************************************)
phrases ==
    << <<"t","r","a","n","s","k","r","i","b","a","c","i","y">>,
       <<"p","e","r","e","v","o","d">>,
       <<"k","o","n","v","e","r","t","a","c","i","y">>,
       <<"p","r","e","o","b","r","a","z","o","v","a","n","i","e">>,
       <<"t","r","a","n","s","k","r","i","p","c","i","y">>,
       <<"r","a","s","w","i","f","r","o","v","k","a">> >>

suffix == <<" ","v"," ","a","u","d","i","o","t","e","k","s","t">>

suffixSeparator == <<" ","v"," ">>

phrasesSuffix ==
    << <<"T","r","a","n","s","k","r","i","b","a","c","i","y">> \o suffix,
       <<"P","e","r","e","v","o","d">> \o suffix,
       <<"K","o","n","v","e","r","t","a","c","i","y">> \o suffix,
       <<"P","r","e","o","b","r","a","z","o","v","a","n","i","e">> \o suffix,
       <<"T","r","a","n","s","k","r","i","p","c","i","y">> \o suffix,
       <<"R","a","s","w","i","f","r","o","v","k","a">> \o suffix >>

Variants == {"script", "suffix"}

PhraseList == IF variant = "script" THEN phrases ELSE phrasesSuffix

\* const currentPhrase = phrases[phraseIndex]
currentPhrase == PhraseList[phraseIndex + 1]

\* const mainWord = currentPhrase.split(" в ")[0]
mainWord == SplitFirst(currentPhrase, suffixSeparator)

TypingDelay == 100
DeletingDelay == 50
NextPhraseDelay == 500
LongPauseScript == 10000
LongPauseSuffix == 2000

LongPause == IF variant = "script" THEN LongPauseScript ELSE LongPauseSuffix

NoTimer == [delay |-> 0, cb |-> "none"]

\* A long pause whose callback only reschedules typePhrase.
LongPauseTimer_NoFlag == [delay |-> LongPause, cb |-> "typePhrase"]

\* setTimeout(() => { isDeleting = true; ... }, 10000)
LongPauseTimer == [delay |-> LongPause, cb |-> "startDeleting"]

\* setTimeout(() => requestAnimationFrame(typePhrase), d)
StepTimer(d) == [delay |-> d, cb |-> "typePhrase"]

\* A phrase index that skips a phrase.
NextPhraseIndex_Skip(i) == (i + 2) % Len(phrases)

\* phraseIndex = (phraseIndex + 1) % phrases.length
NextPhraseIndex(i) == (i + 1) % Len(phrases)

\* The text written by the suffix variant for character count c:
\* the prefix of the main word, or the main word followed by a prefix
\* of the suffix span.
SuffixText(c) ==
    IF c <= Len(mainWord)
    THEN Substring(currentPhrase, 0, c)
    ELSE mainWord \o Substring(suffix, 0, c - Len(mainWord))

\* The text written by the suffix variant while deleting.
SuffixDeleteText(c) ==
    IF c <= Len(mainWord)
    THEN Substring(mainWord, 0, c)
    ELSE mainWord \o Substring(suffix, 0, c - Len(mainWord))

\* script.js typePhrase, run with the deleting flag del.
typePhrase(del) ==
    IF ~del /\ charIndex <= Len(currentPhrase)
    THEN /\ textContent' = Substring(currentPhrase, 0, charIndex)
         /\ charIndex' = charIndex + 1
         /\ writes' = Append(writes, <<"typing", Len(textContent')>>)
         /\ twTimer' = IF charIndex' > Len(currentPhrase)
                       THEN LongPauseTimer
                       ELSE StepTimer(TypingDelay)
         /\ isDeleting' = del
         /\ UNCHANGED phraseIndex
    ELSE IF del /\ charIndex > 0
    THEN /\ textContent' = Substring(currentPhrase, 0, charIndex - 1)
         /\ charIndex' = charIndex - 1
         /\ writes' = Append(writes, <<"deleting", Len(textContent')>>)
         /\ twTimer' = StepTimer(DeletingDelay)
         /\ isDeleting' = del
         /\ UNCHANGED phraseIndex
    ELSE /\ isDeleting' = FALSE
         /\ phraseIndex' = NextPhraseIndex(phraseIndex)
         /\ charIndex' = 0
         /\ writes' = <<>>
         /\ twTimer' = StepTimer(NextPhraseDelay)
         /\ UNCHANGED textContent

\* part_001 typePhrase, run with the deleting flag del.
typePhraseSuffix(del) ==
    IF ~del /\ charIndex <= Len(currentPhrase)
    THEN /\ textContent' = SuffixText(charIndex)
         /\ charIndex' = charIndex + 1
         /\ writes' = Append(writes, <<"typing", Len(textContent')>>)
         /\ twTimer' = IF charIndex' > Len(currentPhrase)
                       THEN LongPauseTimer
                       ELSE StepTimer(TypingDelay)
         /\ isDeleting' = del
         /\ UNCHANGED phraseIndex
    ELSE IF del
    THEN /\ textContent' = SuffixDeleteText(charIndex)
         /\ charIndex' = charIndex - 1
         /\ IF charIndex' = -1
            THEN /\ isDeleting' = FALSE
                 /\ phraseIndex' = NextPhraseIndex(phraseIndex)
                 /\ writes' = <<>>
                 /\ twTimer' = StepTimer(NextPhraseDelay)
            ELSE /\ isDeleting' = del
                 /\ writes' = Append(writes, <<"deleting", Len(textContent')>>)
                 /\ twTimer' = StepTimer(DeletingDelay)
                 /\ UNCHANGED phraseIndex
    ELSE /\ twTimer' = StepTimer(TypingDelay)
         /\ isDeleting' = del
         /\ UNCHANGED <<textContent, charIndex, phraseIndex, writes>>

InitTw ==
    /\ variant \in Variants
    /\ phraseIndex = 0
    /\ charIndex = 0
    /\ isDeleting = FALSE
    /\ textContent = <<>>
    /\ twTimer = NoTimer
    /\ twFrame = TRUE
    /\ writes = <<>>

\* The animation frame requested for typePhrase fires.
TwFrame ==
    /\ twFrame
    /\ twFrame' = FALSE
    /\ IF variant = "script" THEN typePhrase(isDeleting) ELSE typePhraseSuffix(isDeleting)
    /\ op' = "typePhrase"
    /\ UNCHANGED <<variant, btnVars, physVars, pageVars>>

\* script.js: a timer of the chain fires; its callback sets the flag (long
\* pause only) and requests a frame for typePhrase.
TwTimeoutScript ==
    /\ variant = "script"
    /\ twTimer # NoTimer
    /\ twTimer' = NoTimer
    /\ twFrame' = TRUE
    /\ isDeleting' = IF twTimer.cb = "startDeleting" THEN TRUE ELSE isDeleting
    /\ op' = "timeout"
    /\ UNCHANGED <<variant, phraseIndex, charIndex, textContent, writes, btnVars, physVars,
                   pageVars>>

\* part_001: a timer of the chain fires; its callback sets the flag (long
\* pause only) and calls typePhrase directly.
TwTimeoutSuffix ==
    /\ variant = "suffix"
    /\ twTimer # NoTimer
    /\ typePhraseSuffix(IF twTimer.cb = "startDeleting" THEN TRUE ELSE isDeleting)
    /\ op' = "timeout"
    /\ UNCHANGED <<variant, twFrame, btnVars, physVars, pageVars>>

NextTw == TwFrame \/ TwTimeoutScript \/ TwTimeoutSuffix

(***************************************************************************)
(* Button feedback driver (makeButtonClickable)                            *)
(***************************************************************************)
\* The button and the elements of button.querySelectorAll("*").
Descendants == {"icon", "label"}
Elements == {"button"} \cup Descendants

\* const delay = 120
delay == 120

\* Date.now() when the page loads; lastClickTime starts at 0, far in the past.
PageLoadTime == 1000
\* The clock stops at PageLoadTime + ClockSpan.
ClockSpan == 330
MaxDate == PageLoadTime + ClockSpan
\* The amounts of time that pass between two events.
TickSteps == {60, 61}
MaxRemoveTimers == 2

\* A debounce test that also accepts a pointer-down exactly one window later.
DebounceElapsed_Inclusive(currentTime, last) == currentTime - last >= delay

\* if (currentTime - lastClickTime > delay)
DebounceElapsed(currentTime, last) == currentTime - last > delay

\* classList.add("fast-click") on the button and on each descendant
AddFastClass(cls) == cls \cup {"button"} \cup Descendants

\* A removal that forgets the descendants.
RemoveFastClass_ButtonOnly(cls) == cls \ {"button"}

\* classList.remove("fast-click") on the button and on each descendant
RemoveFastClass(cls) == (cls \ {"button"}) \ Descendants

InitBtn ==
    /\ dateNow = PageLoadTime
    /\ lastClickTime = 0
    /\ fastClick = {}
    /\ removeTimers = {}
    /\ downLog = [applied |-> FALSE, appliedAt |-> -1, held |-> FALSE]

\* Time passes, up to the next due removal timer.
BtnTick ==
    /\ dateNow < MaxDate
    /\ \A t \in removeTimers : dateNow < t
    /\ \E d \in TickSteps :
          LET target == Min(dateNow + d, MaxDate)
              due == {t \in removeTimers : t <= target}
          IN  dateNow' = IF due = {} THEN target
                         ELSE CHOOSE t \in due : \A u \in due : t <= u
    /\ op' = "tick"
    /\ UNCHANGED <<lastClickTime, fastClick, removeTimers, downLog, twVars, physVars, pageVars>>

handleMouseDown ==
    /\ IF DebounceElapsed(dateNow, lastClickTime)
       THEN /\ fastClick' = AddFastClass(fastClick)
            /\ lastClickTime' = dateNow
            /\ downLog' = [applied |-> TRUE, appliedAt |-> dateNow, held |-> TRUE]
       ELSE /\ downLog' = [downLog EXCEPT !.applied = FALSE]
            /\ UNCHANGED <<fastClick, lastClickTime>>
    /\ op' = "mousedown"
    /\ UNCHANGED <<dateNow, removeTimers, twVars, physVars, pageVars>>

handleMouseUp ==
    /\ dateNow + delay <= MaxDate
    /\ Cardinality(removeTimers \cup {dateNow + delay}) <= MaxRemoveTimers
    /\ removeTimers' = removeTimers \cup {dateNow + delay}
    /\ downLog' = [downLog EXCEPT !.held = FALSE]
    /\ op' = "mouseup"
    /\ UNCHANGED <<dateNow, lastClickTime, fastClick, twVars, physVars, pageVars>>

\* The callback of the setTimeout of handleMouseUp.
RemoveTimerFire ==
    /\ \E t \in removeTimers :
          /\ t <= dateNow
          /\ removeTimers' = removeTimers \ {t}
    /\ fastClick' = RemoveFastClass(fastClick)
    /\ op' = "removeTimer"
    /\ UNCHANGED <<dateNow, lastClickTime, downLog, twVars, physVars, pageVars>>

handleMouseLeave ==
    /\ fastClick' = RemoveFastClass(fastClick)
    /\ downLog' = [downLog EXCEPT !.held = FALSE]
    /\ op' = "mouseleave"
    /\ UNCHANGED <<dateNow, lastClickTime, removeTimers, twVars, physVars, pageVars>>

NextBtn ==
    \/ BtnTick
    \/ handleMouseDown
    \/ handleMouseUp
    \/ RemoveTimerFire
    \/ handleMouseLeave

(***************************************************************************)
(* Falling sprites (initPhysics of script.js)                              *)
(* Lengths are pixels.  The pointer velocity is kept in tenths (the code   *)
(* multiplies the displacement by 0.1), unit vectors in 1/UnitScale and    *)
(* forces in 1/ForceScale.  The positions the model uses lie on a line of  *)
(* direction (3,4), so every distance below the radius and every pointer   *)
(* displacement is a whole number and Sqrt is exact where it is used.      *)
(***************************************************************************)
NumBodies == 2
Bodies == 0..(NumBodies - 1)

\* container.clientWidth / container.clientHeight at setup
ContainerWidth == 300
ContainerHeight == 240
containerWidth == ContainerWidth
containerHeight == ContainerHeight

UnitScale == 1000
ForceScale == 100000

\* if (distance < 100)
Radius == 100
\* 0.05, in force units
BaseStrength == (5 * ForceScale) \div 100
\* Math.min(3, speed), in tenths
SpeedCap10 == 30
\* if (currentTime - lastTime < 16) return
ThrottleMs == 16
\* the reset margin of checkReset: containerHeight + 100
ResetMargin == 100
\* y of the reset target
ResetY == -100

\* performance.now() when the listeners are registered, and how far it runs
SetupTime == 16
PerfSpan == 16
MaxPerf == SetupTime + PerfSpan
PerfSteps == {15, 16}

Vec(a, b) == [x |-> a, y |-> b]

\* 50 + Math.random() * (containerWidth - 100): two of its values
SpawnXs == {50, containerWidth - 51}

\* event.offsetX / event.offsetY of the pointer events
PointerPositions == {Vec(60, 80), Vec(72, 96), Vec(78, 104), Vec(150, 200)}

BodyState(px, py, vx, vy, av) == [x |-> px, y |-> py, vx |-> vx, vy |-> vy, av |-> av]

\* Where the engine may have brought a body: at rest or moving at three
\* points near the pointer positions, falling exactly at the reset line and
\* falling just below it.  Velocities are in tenths of a pixel per frame:
\* the third state moves at exactly 0.1 on both axes, the second at 0.2
\* horizontally only.
EngineStates ==
    {BodyState(60, 80, 0, 0, 0), BodyState(90, 120, 2, 1, 1), BodyState(120, 160, 1, -1, 0),
     BodyState(70, containerHeight + ResetMargin, 0, 6, 1),
     BodyState(70, containerHeight + ResetMargin + 1, 1, 7, 2)}

NoForce == [on |-> FALSE, x |-> 0, y |-> 0]
Force(v) == [on |-> TRUE, x |-> v.x, y |-> v.y]

RECURSIVE SqrtSearch(_, _, _)
SqrtSearch(n, lo, hi) ==
    IF lo >= hi THEN lo
    ELSE LET mid == (lo + hi + 1) \div 2
         IN  IF mid * mid <= n THEN SqrtSearch(n, mid, hi)
                               ELSE SqrtSearch(n, lo, mid - 1)

\* Math.sqrt, rounded down to a whole number
Sqrt(n) == SqrtSearch(n, 0, Min(n, 46340))

\* Matter.Vector.sub
VSub(a, b) == Vec(a.x - b.x, a.y - b.y)

\* Matter.Vector.magnitude
Magnitude(v) == Sqrt(v.x * v.x + v.y * v.y)

\* Matter.Vector.normalise: the zero vector stays the zero vector
Normalise(v) ==
    IF Magnitude(v) = 0 THEN Vec(0, 0)
    ELSE Vec((v.x * UnitScale) \div Magnitude(v), (v.y * UnitScale) \div Magnitude(v))

\* Matter.Vector.mult of a unit vector by a scalar in force units
VMult(u, k) == Vec((u.x * k) \div UnitScale, (u.y * k) \div UnitScale)

\* A scalar whose cap on the pointer speed is twice too high.
ForceScalar_HighCap(distance, speed10) ==
    (BaseStrength * (Radius - distance) * Min(2 * SpeedCap10, speed10)) \div (Radius * 10)

\* A scalar without the falloff in the distance.
ForceScalar_NoFalloff(distance, speed10) ==
    (BaseStrength * Radius * Min(SpeedCap10, speed10)) \div (Radius * 10)

\* 0.05 * (1 - distance/100) * Math.min(3, speed)
ForceScalar(distance, speed10) ==
    (BaseStrength * (Radius - distance) * Min(SpeedCap10, speed10)) \div (Radius * 10)

\* A radius test that lets bodies at the radius and beyond through.
InRadius_Wide(distance) == distance < Radius + 50

\* if (distance < 100)
InRadius(distance) == distance < Radius

\* A throttle that never drops a sample.
ThrottleDrop_Never(currentTime, last) == currentTime - last < 0

\* if (currentTime - lastTime < 16) return
ThrottleDrop(currentTime, last) == currentTime - last < ThrottleMs

\* A reset that moves the body but keeps its motion.
ResetBody_KeepMotion(b, newX) == [b EXCEPT !.x = newX, !.y = ResetY]

\* Body.setPosition / setVelocity / setAngularVelocity of checkReset
ResetBody(b, newX) ==
    [b EXCEPT !.x = newX, !.y = ResetY, !.vx = 0, !.vy = 0, !.av = 0]

\* if (body.position.y > containerHeight + 100)
FellOut(b) == b.y > containerHeight + ResetMargin

NoForces == [b \in Bodies |-> NoForce]

\* No mousemove handler ran last.
NoSample == [event |-> FALSE, processed |-> FALSE, pos |-> Vec(0, 0), vel |-> Vec(0, 0)]

\* The three initPhysics variants: script.js gates the repulsion on
\* isMouseInContainer, part_001 also on isDragging, script2.js on nothing
\* and adds the ceiling.
PhysVariants == {"script", "part_001", "script2"}

Abs(n) == IF n < 0 THEN -n ELSE n

\* A spawn height that ignores the index.
SpawnY_Same(index) == -100

\* -100 - (index * 100)
SpawnY(index) == -100 - (index * 100)

\* Composite.add(world, [...walls, ...bodies, mouseConstraint])
SetupWorld == [walls |-> 3, sprites |-> Bodies, constraints |-> 1, ceilings |-> 0]

\* A ceiling step that adds a further sprite body instead of the wall.
AddTopWall_Sprite(w) == [w EXCEPT !.sprites = @ \cup {NumBodies}]

\* Composite.add(world, topWall)
AddTopWall(w) == [w EXCEPT !.ceilings = @ + 1]

\* 0.1, in tenths of a pixel per frame
VelThreshold10 == 1

\* A movement test that looks at the vertical velocity only.
MovingSignificantly_YOnly(b) == Abs(b.vy) > VelThreshold10

\* Math.abs(body.velocity.y) > 0.1 || Math.abs(body.velocity.x) > 0.1
MovingSignificantly(b) == Abs(b.vy) > VelThreshold10 \/ Abs(b.vx) > VelThreshold10

\* allBodiesSettled at the end of the forEach of checkReset: no body was
\* reset and no body, as the loop left it, moves significantly.
AllBodiesSettled(before, after) ==
    \A b \in Bodies : ~FellOut(before[b]) /\ ~MovingSignificantly(after[b])

\* A ceiling test that forgets the flag.
CeilingDue_Repeat(settled, added) == settled

\* if (allBodiesSettled && !topWallAdded)
CeilingDue(settled, added) == settled /\ ~added

\* No checkReset run ran last.
NoFrame == [ran |-> FALSE, settled |-> FALSE, added |-> FALSE]

\* A wall: its centre in half pixels and its size in pixels.
Wall(cx2, cy2, w, h) == [cx2 |-> cx2, cy2 |-> cy2, w |-> w, h |-> h]

Size(w, h) == [w |-> w, h |-> h]

\* container.clientWidth / clientHeight at setup
SetupSize == Size(containerWidth, containerHeight)

\* The sizes the container may have after a window resize: as at setup, or
\* wider and taller by more than the reset margin.
ClientSizes == {SetupSize, Size(containerWidth + 100, containerHeight + ResetMargin + 20)}

\* const walls = [ground, left, right], for a container of size sz
BuildWalls(sz) ==
    [ground |-> Wall(sz.w, 2 * sz.h + 60, sz.w, 60),
     left |-> Wall(-60, sz.h, 60, sz.h),
     right |-> Wall(2 * sz.w + 60, sz.h, 60, sz.h)]

SetupWalls == BuildWalls(SetupSize)

\* Body.setPosition(walls[0], ...) and Body.setPosition(walls[2], ...)
ResizeWalls(ws, newSize) ==
    [ws EXCEPT !.ground.cx2 = newSize.w, !.ground.cy2 = 2 * newSize.h + 60,
               !.right.cx2 = 2 * newSize.w + 60, !.right.cy2 = newSize.h]

MaxReleaseTimers == 2

\* A gate that ignores the drag flag.
GateOpen_NoDrag == physVariant = "script2" \/ isMouseInContainer

\* if (isMouseInContainer) / if (isMouseInContainer && !isDragging) / no test
GateOpen ==
    CASE physVariant = "script" -> isMouseInContainer
      [] physVariant = "part_001" -> isMouseInContainer /\ ~isDragging
      [] OTHER -> TRUE

\* The bodies as initPhysics creates them.
SpawnedBodies ==
    {[i \in Bodies |-> BodyState(xs[i], SpawnY(i), 0, 0, 0)] : xs \in [Bodies -> SpawnXs]}

\* The state of initPhysics for the variants V, with the pointer over the
\* container or not (O) when the listeners are registered, the bodies one
\* of B and the world one of W.
InitPhysFor(V, O, B, W) ==
    /\ physVariant \in V
    /\ bodies \in B
    /\ perfNow = SetupTime
    /\ lastTime = 0
    /\ lastMousePos = Vec(0, 0)
    /\ isMouseInContainer = FALSE
    /\ pointerOver \in O
    /\ applied = NoForces
    /\ sample = NoSample
    /\ processedPos = Vec(0, 0)
    /\ isDragging = FALSE
    /\ dragReleaseTimers = 0
    /\ enteredContainer = FALSE
    /\ topWallAdded = FALSE
    /\ world \in W
    /\ frame = NoFrame
    /\ clientSize = SetupSize
    /\ walls = SetupWalls
    /\ canvasSize = SetupSize
    /\ resizeTimers = {}
    /\ resizeCleared = FALSE
    /\ resetFrames = (IF world = SetupWorld THEN 1 ELSE 0)
    /\ runnerOn = (world = SetupWorld)
    /\ renderOn = (world = SetupWorld)
    /\ canvasInDom = (world = SetupWorld)
    /\ teardown = "none"

InitPhys == InitPhysFor({"script"}, {FALSE}, SpawnedBodies, {SetupWorld})

\* A handler other than mousemove ran: it applied no force and saw no sample.
ClearOutputs ==
    /\ applied' = NoForces
    /\ sample' = NoSample
    /\ UNCHANGED processedPos

\* A handler other than checkReset ran: the world is as it was.
KeepWorld ==
    /\ frame' = NoFrame
    /\ resizeCleared' = FALSE
    /\ UNCHANGED <<topWallAdded, world>>

\* A frame request that schedules two callbacks.
RequestFrame_Twice(n) == n + 2

\* resetTimeout = requestAnimationFrame(checkReset): one more pending callback
RequestFrame(n) == n + 1

\* cancelAnimationFrame(resetTimeout): resetTimeout names the callback
\* requested last, which is pending unless it has run
CancelFrame(n) == IF n > 0 THEN n - 1 ELSE 0

\* World is among the names destructured from Matter (not in script2.js)
WorldBound(v) == v # "script2"

\* World.clear(world, true)
ClearedWorld == [walls |-> 0, sprites |-> {}, constraints |-> 0, ceilings |-> 0]

\* The engine update (Runner): one body has moved.
EngineStep ==
    /\ runnerOn
    /\ \E b \in Bodies, st \in EngineStates : bodies' = [bodies EXCEPT ![b] = st]
    /\ ClearOutputs
    /\ KeepWorld
    /\ op' = "engine"
    /\ UNCHANGED <<perfNow, lastTime, lastMousePos, isMouseInContainer, pointerOver, gateVars,
                   resizeVars, lifeVars, twVars, btnVars, pageVars>>

PerfTick ==
    /\ \E d \in PerfSteps :
          /\ perfNow + d <= MaxPerf
          /\ perfNow' = perfNow + d
    /\ ClearOutputs
    /\ KeepWorld
    /\ op' = "tick"
    /\ UNCHANGED <<bodies, lastTime, lastMousePos, isMouseInContainer, pointerOver, gateVars,
                   resizeVars, lifeVars, twVars, btnVars, pageVars>>

\* container 'mouseenter' (script2.js registers no handler)
ContainerMouseEnter ==
    /\ ~pointerOver
    /\ pointerOver' = TRUE
    /\ enteredContainer' = TRUE
    /\ isMouseInContainer' = IF physVariant = "script2" THEN isMouseInContainer ELSE TRUE
    /\ ClearOutputs
    /\ KeepWorld
    /\ op' = "mouseenter"
    /\ UNCHANGED <<bodies, perfNow, lastTime, lastMousePos, physVariant, isDragging,
                   dragReleaseTimers, resizeVars, lifeVars, twVars, btnVars, pageVars>>

\* The pointer leaves the container.  script.js and script2.js register no
\* handler; part_001 clears the flag and, during a drag, starts the 50 ms
\* release timer.
ContainerMouseLeave ==
    /\ pointerOver
    /\ pointerOver' = FALSE
    /\ enteredContainer' = FALSE
    /\ IF physVariant = "part_001"
       THEN /\ isMouseInContainer' = FALSE
            /\ IF isDragging
               THEN /\ dragReleaseTimers < MaxReleaseTimers
                    /\ dragReleaseTimers' = dragReleaseTimers + 1
               ELSE UNCHANGED dragReleaseTimers
       ELSE UNCHANGED <<isMouseInContainer, dragReleaseTimers>>
    /\ ClearOutputs
    /\ KeepWorld
    /\ op' = "mouseleave"
    /\ UNCHANGED <<bodies, perfNow, lastTime, lastMousePos, physVariant, isDragging, resizeVars,
                   lifeVars, twVars, btnVars, pageVars>>

\* part_001: the callback of the setTimeout of the mouseleave handler.
DragReleaseTimeout ==
    /\ dragReleaseTimers > 0
    /\ dragReleaseTimers' = dragReleaseTimers - 1
    /\ isDragging' = FALSE
    /\ ClearOutputs
    /\ KeepWorld
    /\ op' = "dragRelease"
    /\ UNCHANGED <<bodies, perfNow, lastTime, lastMousePos, isMouseInContainer, pointerOver,
                   physVariant, enteredContainer, resizeVars, lifeVars, twVars, btnVars, pageVars>>

\* part_001: canvas 'mousedown'
CanvasMouseDown ==
    /\ physVariant = "part_001"
    /\ pointerOver
    /\ isDragging' = IF isMouseInContainer THEN TRUE ELSE isDragging
    /\ ClearOutputs
    /\ KeepWorld
    /\ op' = "mousedown"
    /\ UNCHANGED <<bodies, perfNow, lastTime, lastMousePos, isMouseInContainer, pointerOver,
                   physVariant, dragReleaseTimers, enteredContainer, resizeVars,
                   lifeVars, twVars, btnVars, pageVars>>

\* part_001: canvas 'mouseup'
CanvasMouseUp ==
    /\ physVariant = "part_001"
    /\ pointerOver
    /\ isDragging' = FALSE
    /\ ClearOutputs
    /\ KeepWorld
    /\ op' = "mouseup"
    /\ UNCHANGED <<bodies, perfNow, lastTime, lastMousePos, isMouseInContainer, pointerOver,
                   physVariant, dragReleaseTimers, enteredContainer, resizeVars,
                   lifeVars, twVars, btnVars, pageVars>>

\* The force the mousemove handler applies to body b for a processed sample.
RepelForce(b, mousePosition, speed10) ==
    LET away == VSub(Vec(b.x, b.y), mousePosition)
        distance == Magnitude(away)
    IN  IF InRadius(distance)
        THEN Force(VMult(Normalise(away), ForceScalar(distance, speed10)))
        ELSE NoForce

\* canvas 'mousemove'; the canvas lies inside the container, so the event
\* arrives only while the pointer is over the container.
CanvasMouseMove ==
    /\ pointerOver
    /\ \E mousePosition \in PointerPositions :
          IF ThrottleDrop(perfNow, lastTime)
          THEN /\ applied' = NoForces
               /\ sample' = [event |-> TRUE, processed |-> FALSE,
                             pos |-> mousePosition, vel |-> Vec(0, 0)]
               /\ UNCHANGED <<lastMousePos, lastTime, processedPos>>
          ELSE LET mouseVelocity == VSub(mousePosition, lastMousePos)
                   speed10 == Magnitude(mouseVelocity)
               IN  /\ applied' = [b \in Bodies |->
                                     IF GateOpen
                                     THEN RepelForce(bodies[b], mousePosition, speed10)
                                     ELSE NoForce]
                   /\ sample' = [event |-> TRUE, processed |-> TRUE,
                                 pos |-> mousePosition, vel |-> mouseVelocity]
                   /\ processedPos' = mousePosition
                   /\ lastMousePos' = mousePosition
                   /\ lastTime' = perfNow
    /\ KeepWorld
    /\ op' = "mousemove"
    /\ UNCHANGED <<bodies, perfNow, isMouseInContainer, pointerOver, gateVars, resizeVars,
                   lifeVars, twVars, btnVars, pageVars>>

\* The animation frame of checkReset (it requests the next one itself);
\* script2.js adds the ceiling once all bodies have settled.
checkReset ==
    /\ resetFrames > 0
    /\ resetFrames' = RequestFrame(resetFrames - 1)
    /\ UNCHANGED <<runnerOn, renderOn, canvasInDom, teardown>>
    /\ \E xs \in [{b \in Bodies : FellOut(bodies[b])} -> SpawnXs] :
          bodies' = [b \in Bodies |->
                        IF FellOut(bodies[b]) THEN ResetBody(bodies[b], xs[b]) ELSE bodies[b]]
    /\ IF physVariant = "script2" /\ CeilingDue(AllBodiesSettled(bodies, bodies'), topWallAdded)
       THEN /\ world' = AddTopWall(world)
            /\ topWallAdded' = TRUE
       ELSE UNCHANGED <<topWallAdded, world>>
    /\ frame' = [ran |-> TRUE, settled |-> AllBodiesSettled(bodies, bodies'),
                 added |-> world' # world]
    /\ resizeCleared' = FALSE
    /\ ClearOutputs
    /\ op' = "checkReset"
    /\ UNCHANGED <<perfNow, lastTime, lastMousePos, isMouseInContainer, pointerOver, gateVars,
                   resizeVars, twVars, btnVars, pageVars>>

\* setTimeout(..., 250)
ResizeDelay == 250

\* Time between two resize events of a burst, in ms.
ResizeGaps == {100, 249}

\* A handler that leaves the pending timer alone.
ClearPending_Keep(ts) == ts

\* if (resizeTimeout) clearTimeout(resizeTimeout): resizeTimeout names the
\* timer set last, the only one that can be pending
ClearPending(ts) == {}

\* window 'resize': the container may have a new size; the handler clears
\* the pending timer and starts a new one.  A pending timer means that the
\* previous event is less than its remaining time ago.
WindowResize ==
    /\ \E sz \in ClientSizes : clientSize' = sz
    /\ \E gap \in ResizeGaps :
          /\ \A t \in resizeTimers : gap < t
          /\ resizeTimers' = ClearPending({t - gap : t \in resizeTimers}) \cup {ResizeDelay}
    /\ resizeCleared' = (resizeTimers # {})
    /\ frame' = NoFrame
    /\ ClearOutputs
    /\ op' = "resize"
    /\ UNCHANGED <<bodies, perfNow, lastTime, lastMousePos, isMouseInContainer, pointerOver,
                   gateVars, walls, canvasSize, topWallAdded, world, lifeVars, twVars, btnVars,
                   pageVars>>

\* The callback of the resize timer that is due first, when it is due: the
\* canvas takes the container's current size and the ground and the right
\* wall are moved to it.
ResizeTimeout ==
    /\ \E t \in resizeTimers :
          /\ \A u \in resizeTimers : t <= u
          /\ resizeTimers' = {u - t : u \in resizeTimers \ {t}}
    /\ canvasSize' = clientSize
    /\ walls' = ResizeWalls(walls, clientSize)
    /\ ClearOutputs
    /\ KeepWorld
    /\ op' = "resizeTimeout"
    /\ UNCHANGED <<bodies, perfNow, lastTime, lastMousePos, isMouseInContainer, pointerOver,
                   gateVars, clientSize, lifeVars, twVars, btnVars, pageVars>>

\* The closure returned by initPhysics, called once.  Its statements run in
\* order; a ReferenceError at World.clear ends it there.
Teardown ==
    /\ teardown = "none"
    /\ runnerOn' = FALSE
    /\ renderOn' = FALSE
    /\ resetFrames' = CancelFrame(resetFrames)
    /\ IF WorldBound(physVariant)
       THEN /\ world' = ClearedWorld
            /\ canvasInDom' = FALSE
            /\ teardown' = "done"
       ELSE /\ teardown' = "error"
            /\ UNCHANGED <<world, canvasInDom>>
    /\ frame' = NoFrame
    /\ resizeCleared' = FALSE
    /\ ClearOutputs
    /\ op' = "teardown"
    /\ UNCHANGED <<bodies, perfNow, lastTime, lastMousePos, isMouseInContainer, pointerOver,
                   gateVars, topWallAdded, resizeVars, twVars, btnVars, pageVars>>

NextPhys ==
    \/ EngineStep
    \/ PerfTick
    \/ ContainerMouseEnter
    \/ ContainerMouseLeave
    \/ CanvasMouseMove
    \/ checkReset

\* The pointer handlers of script.js and part_001.
NextGate ==
    \/ EngineStep
    \/ PerfTick
    \/ ContainerMouseEnter
    \/ ContainerMouseLeave
    \/ CanvasMouseMove
    \/ CanvasMouseDown
    \/ CanvasMouseUp
    \/ DragReleaseTimeout

\* script2.js: the pointer driver, the reset loop and the resize handler.
NextWorld ==
    \/ EngineStep
    \/ ContainerMouseEnter
    \/ ContainerMouseLeave
    \/ CanvasMouseMove
    \/ checkReset
    \/ WindowResize
    \/ ResizeTimeout

\* script.js and script2.js: the runner, the reset loop and the resize handler.
NextResize ==
    \/ EngineStep
    \/ checkReset
    \/ WindowResize
    \/ ResizeTimeout

\* The runner, the reset loop and the teardown closure.
NextLife ==
    \/ EngineStep
    \/ checkReset
    \/ Teardown

(***************************************************************************)
(* Scroll progress (calculateTransform of script.js, calculateProgress of  *)
(* part_002).  Fractions are kept exactly as numerator and positive        *)
(* denominator.                                                            *)
(***************************************************************************)
Frac(n, dn) == [num |-> n, den |-> dn]

\* a <= b for fractions with positive denominators
FracLe(a, b) == a.num * b.den <= b.num * a.den

\* a = b as numbers
FracEq(a, b) == a.num * b.den = b.num * a.den

\* A maximum that returns its second argument.
FracMax_NoFloor(a, b) == b

\* Math.max / Math.min on fractions
FracMax(a, b) == IF FracLe(a, b) THEN b ELSE a
FracMin(a, b) == IF FracLe(a, b) THEN a ELSE b

\* 1 - (p * k) for the fraction p and the factor k = kn / kd
OneMinusTimes(p, kn, kd) == Frac(kd * p.den - kn * p.num, kd * p.den)

\* The section windows of handleScroll (script.js) and scrollRanges (part_002).
Window(a, b) == [start |-> a, end |-> b]

ScrollWindows ==
    {Window(0, 200), Window(100, 400), Window(200, 500), Window(500, 1000),
     Window(0, 1000), Window(200, 1200), Window(300, 1400), Window(1100, 1400),
     Window(1800, 3000)}

\* window.pageYOffset takes the multiples of OffsetStep up to MaxScroll and
\* one negative value (overscroll).
OffsetStep == 50
MaxScroll == 3050
ScrollOffsets == {-OffsetStep} \cup {k * OffsetStep : k \in 0..(MaxScroll \div OffsetStep)}

\* A clamp without the lower bound.
Clamp01_NoFloor(q) == FracMin(Frac(1, 1), q)

\* Math.max(0, Math.min(1, q))
Clamp01(q) == FracMax(Frac(0, 1), FracMin(Frac(1, 1), q))

\* script.js calculateTransform
calculateTransform(scrollPosition, startPosition, endPosition) ==
    LET progress == Clamp01(Frac(scrollPosition - startPosition, endPosition - startPosition))
    IN  [progress |-> progress,
         scale |-> FracMax(Frac(1, 10), OneMinusTimes(progress, 9, 10)),
         opacity |-> FracMax(Frac(0, 1), OneMinusTimes(progress, 5, 2))]

\* part_001 calculateTransform
calculateTransformPart001(scrollPosition, startPosition, endPosition) ==
    LET progress == Clamp01(Frac(scrollPosition - startPosition, endPosition - startPosition))
    IN  [progress |-> progress,
         scale |-> FracMax(Frac(1, 10), OneMinusTimes(progress, 1, 1)),
         opacity |-> FracMax(Frac(0, 1), OneMinusTimes(progress, 1, 1))]

\* part_002 calculateProgress
calculateProgress(currentScroll, start, end) ==
    IF currentScroll < start THEN Frac(0, 1)
    ELSE IF currentScroll > end THEN Frac(1, 1)
    ELSE Frac(currentScroll - start, end - start)

\* Both functions applied to one input.
Calculate(in) ==
    [transform |-> calculateTransform(in.scrollPosition, in.startPosition, in.endPosition),
     transform1 |->
         calculateTransformPart001(in.scrollPosition, in.startPosition, in.endPosition),
     progress |-> calculateProgress(in.scrollPosition, in.startPosition, in.endPosition)]

CalcInput(s, w) == [scrollPosition |-> s, startPosition |-> w.start, endPosition |-> w.end]

\* The functions have been called for a window of ws at an offset of offs.
InitCalcFor(ws, offs) ==
    /\ \E w \in ws, s \in offs : calcInput = CalcInput(s, w)
    /\ calcResult = Calculate(calcInput)

\* The first handleScroll call of the page: the first window at offset 0.
InitCalc == InitCalcFor({Window(0, 200)}, {0})

\* The functions are called for the same window at another scroll offset.
CalculateStep ==
    /\ \E s \in ScrollOffsets :
          calcInput' = [calcInput EXCEPT !.scrollPosition = s]
    /\ calcResult' = Calculate(calcInput')
    /\ op' = "calculate"
    /\ UNCHANGED <<scrollVars, loadVars, domVars, parallaxVars, morePageVars, twVars, btnVars,
                   physVars>>

NextCalc == CalculateStep

(***************************************************************************)
(* Scroll driver (script.js: scroll listener, handleScroll)                *)
(***************************************************************************)
\* The animated sections of handleScroll with their start and end scroll.
Sections == {"typing-block", "typing-block-3", "registration-blue", "container", "feed"}

SectionWindow(sec) ==
    CASE sec \in {"typing-block", "typing-block-3"} -> Window(0, 200)
      [] sec = "registration-blue" -> Window(100, 400)
      [] sec = "container" -> Window(200, 500)
      [] OTHER -> Window(500, 1000)

\* if (scrollPosition > 600)
TryFreeThreshold == 600

\* The values window.pageYOffset takes in the scroll driver.
PageOffsets == {0, 100, 250, 450, 650, 1000}

\* At most MaxBurst scroll events arrive between two rendered frames.
MaxBurst == 3

\* A scroll listener that requests a frame for every event.
NeedsFrame_Always(t) == TRUE

\* if (!ticking)
NeedsFrame(t) == ~t

\* What handleScroll writes for the scroll position y: the transform of every
\* section (applyAnimation) and the class of the try-free button.
SectionStyles(y) ==
    [sec \in Sections |-> calculateTransform(y, SectionWindow(sec).start, SectionWindow(sec).end)]

TryFreeVisible(y) == y > TryFreeThreshold

NoFrameLog == [events |-> 0, evals |-> 0]

\* A frame callback that leaves ticking set.
TickingAfterFrame_Stuck == TRUE

\* ticking = false, at the end of the frame callback
TickingAfterFrame == FALSE

\* The state after the DOMContentLoaded handler: scrolled to the top,
\* handleScroll called once, no frame requested.
InitScroll ==
    /\ scrollTop = 0
    /\ ticking = FALSE
    /\ scrollFrames = 0
    /\ lastScrollTop = 0
    /\ sectionStyle = SectionStyles(0)
    /\ tryFreeVisible = TryFreeVisible(0)
    /\ scrollEvents = 0
    /\ frameLog = NoFrameLog

\* window 'scroll': the page has been scrolled to another offset.
ScrollEvent ==
    /\ scrollEvents < MaxBurst
    /\ \E y \in PageOffsets \ {scrollTop} : scrollTop' = y
    /\ IF NeedsFrame(ticking)
       THEN /\ scrollFrames' = scrollFrames + 1
            /\ ticking' = TRUE
       ELSE UNCHANGED <<scrollFrames, ticking>>
    /\ scrollEvents' = scrollEvents + 1
    /\ op' = "scroll"
    /\ UNCHANGED <<lastScrollTop, sectionStyle, tryFreeVisible, frameLog, calcVars, loadVars,
                   domVars, parallaxVars, morePageVars, twVars, btnVars, physVars>>

\* A frame is rendered: every pending callback of the scroll listener runs
\* handleScroll and clears ticking.
RenderFrame ==
    /\ IF scrollFrames > 0
       THEN /\ lastScrollTop' = scrollTop
            /\ sectionStyle' = SectionStyles(scrollTop)
            /\ tryFreeVisible' = TryFreeVisible(scrollTop)
            /\ ticking' = TickingAfterFrame
       ELSE UNCHANGED <<lastScrollTop, sectionStyle, tryFreeVisible, ticking>>
    /\ scrollFrames' = 0
    /\ frameLog' = [events |-> scrollEvents, evals |-> scrollFrames]
    /\ scrollEvents' = 0
    /\ op' = "frame"
    /\ UNCHANGED <<scrollTop, calcVars, loadVars, domVars, parallaxVars, morePageVars, twVars,
                   btnVars, physVars>>

NextScroll == ScrollEvent \/ RenderFrame

(***************************************************************************)
(* Sprite loader (initPhysics: await Promise.all(imgElements.map(...)))    *)
(***************************************************************************)
\* document.querySelectorAll('.svg-sprites img'): one image per body
Images == Bodies

\* img.complete is true for an image that needs no further loading, be it
\* loaded or broken; a loading image later fires load or error.
ImageStates == {"complete", "loading", "loaded", "failed"}

\* An error handler that does not resolve.
OnError_Ignore(res, i) == res

\* img.onerror = () => resolve()
OnError(res, i) == res \cup {i}

\* img.onload = () => resolve()
OnLoad(res, i) == res \cup {i}

\* if (img.complete) resolve()
ResolvedAtCall(st) == {i \in Images : st[i] = "complete"}

\* Before the world is set up there are no bodies and the world is empty.
NoBodies == [i \in {} |-> 0]
NoWorld == [walls |-> 0, sprites |-> {}, constraints |-> 0, ceilings |-> 0]

\* initPhysics has been called and awaits the images, each complete or
\* still loading.
InitLoadFor(states) ==
    /\ imgState \in [Images -> states]
    /\ resolved = ResolvedAtCall(imgState)
    /\ setupStarted = FALSE

\* The loader has finished and the world has been set up.
InitLoadDone ==
    /\ imgState = [i \in Images |-> "complete"]
    /\ resolved = Images
    /\ setupStarted = TRUE

\* 'load' of a loading image
ImageLoad ==
    /\ \E i \in Images :
          /\ imgState[i] = "loading"
          /\ imgState' = [imgState EXCEPT ![i] = "loaded"]
          /\ resolved' = OnLoad(resolved, i)
    /\ op' = "load"
    /\ UNCHANGED <<setupStarted, calcVars, scrollVars, domVars, parallaxVars, morePageVars, twVars, btnVars,
                   physVars>>

\* 'error' of a loading image
ImageError ==
    /\ \E i \in Images :
          /\ imgState[i] = "loading"
          /\ imgState' = [imgState EXCEPT ![i] = "failed"]
          /\ resolved' = OnError(resolved, i)
    /\ op' = "error"
    /\ UNCHANGED <<setupStarted, calcVars, scrollVars, domVars, parallaxVars, morePageVars, twVars, btnVars,
                   physVars>>

\* Promise.all has resolved: initPhysics continues after the await and
\* builds the engine, the walls and the bodies.
SetupStart ==
    /\ ~setupStarted
    /\ resolved = Images
    /\ setupStarted' = TRUE
    /\ bodies' \in SpawnedBodies
    /\ world' = SetupWorld
    /\ op' = "setup"
    /\ UNCHANGED <<imgState, resolved, perfNow, lastTime, lastMousePos, isMouseInContainer,
                   pointerOver, applied, sample, processedPos, gateVars, topWallAdded, frame,
                   resizeCleared,
                   resizeVars, teardown, calcVars, scrollVars, domVars, parallaxVars, morePageVars, twVars,
                   btnVars>>
    /\ resetFrames' = 1
    /\ runnerOn' = TRUE
    /\ renderOn' = TRUE
    /\ canvasInDom' = TRUE

\* The engine runs once the world is set up.
RunningEngineStep == setupStarted /\ EngineStep

NextLoad == ImageLoad \/ ImageError \/ SetupStart \/ RunningEngineStep

(***************************************************************************)
(* Driver initialization against the elements of the page (script.js and   *)
(* script2.js; physVariant tells which file the page loads)                *)
(***************************************************************************)
\* The elements the drivers look up.
PageElements ==
    {"typing-text", "cursor", "login", "feed", "canvas-container", "container", "try-free"}

Drivers == {"text", "login", "parallax", "physics"}

\* The element(s) a driver expects.
Expected(drv) ==
    CASE drv = "text" -> {"typing-text", "cursor"}
      [] drv = "login" -> {"login"}
      [] drv = "parallax" -> {"feed"}
      [] OTHER -> {"canvas-container"}

\* initTextAnimation: if (!typingElement || !cursorElement) return;
TextOutcome(P) ==
    IF "typing-text" \notin P \/ "cursor" \notin P THEN "skipped" ELSE "started"

\* makeButtonClickable(loginButton): button.addEventListener on null throws
LoginOutcome(P) == IF "login" \in P THEN "started" ELSE "error"

\* The DOMContentLoaded parallax handler.  script.js guards every element;
\* script2.js calls feed.querySelectorAll, and its first handleScroll call
\* reads container.classList and tryFreeButton.classList.
ParallaxOutcome(P) ==
    IF physVariant = "script2"
    THEN IF {"feed", "container", "try-free"} \subseteq P THEN "started" ELSE "error"
    ELSE "started"

\* initPhysics after the await: container.clientWidth on null throws
PhysicsOutcome(P) == IF "canvas-container" \in P THEN "started" ELSE "error"

Outcome(drv, P) ==
    CASE drv = "text" -> TextOutcome(P)
      [] drv = "login" -> LoginOutcome(P)
      [] drv = "parallax" -> ParallaxOutcome(P)
      [] OTHER -> PhysicsOutcome(P)

\* The page has the elements of one of the sets Ps and no driver has run.
InitDomFor(Ps) ==
    /\ present \in Ps
    /\ driver = [drv \in Drivers |-> "pending"]

\* A complete page on which every driver has started.
InitDomDone ==
    /\ present = PageElements
    /\ driver = [drv \in Drivers |-> "started"]

\* The initialization of one driver runs.
DriverInit ==
    /\ \E drv \in Drivers :
          /\ driver[drv] = "pending"
          /\ driver' = [driver EXCEPT ![drv] = Outcome(drv, present)]
    /\ op' = "driverInit"
    /\ UNCHANGED <<present, calcVars, scrollVars, loadVars, parallaxVars, morePageVars, twVars, btnVars,
                   physVars>>

NextDom == DriverInit

(***************************************************************************)
(* Background parallax (script.js: updateParallax, handleMouseMove, the    *)
(* canvas container listeners).  Offsets are kept in 1/LerpScale pixels,   *)
(* which is exact for MaxLerpSteps interpolation steps.                    *)
(***************************************************************************)
\* const maxMovement = 15
maxMovement == 15

\* At most MaxLerpSteps interpolation steps are followed.
MaxLerpSteps == 2

RECURSIVE Pow10(_)
Pow10(k) == IF k = 0 THEN 1 ELSE 10 * Pow10(k - 1)

LerpScale == 2 * Pow10(MaxLerpSteps)

\* e.clientX / window.innerWidth and e.clientY / window.innerHeight of the
\* pointer events, in halves: a corner and two edge midpoints.
ClientFractions2 == {<<0, 0>>, <<2, 1>>, <<1, 2>>}

\* A target that is not centred on the middle of the viewport.
TargetFor_NotCentred(f2) == (f2 * maxMovement * LerpScale) \div 2

\* (percentage - 0.5) * maxMovement, for a percentage given in halves
TargetFor(f2) == ((f2 - 1) * maxMovement * LerpScale) \div 2

\* lerp(start, end, 0.1)
lerp(start, end) == start + (end - start) \div 10

\* window.pageYOffset * 0.15
ScrollOffset(y) == (15 * y * LerpScale) \div 100

\* calc(50% + ${currentBackgroundX}px) calc(${-scrollOffset}px + ${currentBackgroundY}px)
BackgroundPosition(cx, cy, y) == [x |-> cx, y |-> -ScrollOffset(y) + cy]

\* A parallax that is never suppressed.
ParallaxActive_Always(over) == TRUE

\* if (!isMouseOverCanvas)
ParallaxActive(over) == ~over

\* The state after the DOMContentLoaded handler, which calls updateParallax once.
InitParallax ==
    /\ isMouseOverCanvas = FALSE
    /\ targetBackgroundX = 0
    /\ targetBackgroundY = 0
    /\ currentBackgroundX = 0
    /\ currentBackgroundY = 0
    /\ backgroundPosition = BackgroundPosition(0, 0, 0)
    /\ lerpSteps = 0

\* The animation frame of updateParallax (it requests the next one itself).
updateParallax ==
    /\ IF ParallaxActive(isMouseOverCanvas)
       THEN /\ lerpSteps < MaxLerpSteps
            /\ lerpSteps' = lerpSteps + 1
            /\ currentBackgroundX' = lerp(currentBackgroundX, targetBackgroundX)
            /\ currentBackgroundY' = lerp(currentBackgroundY, targetBackgroundY)
            /\ backgroundPosition' =
                  BackgroundPosition(currentBackgroundX', currentBackgroundY', scrollTop)
       ELSE UNCHANGED <<lerpSteps, currentBackgroundX, currentBackgroundY, backgroundPosition>>
    /\ op' = "updateParallax"
    /\ UNCHANGED <<isMouseOverCanvas, targetBackgroundX, targetBackgroundY, calcVars, scrollVars,
                   loadVars, domVars, morePageVars, twVars, btnVars, physVars>>

\* document 'mousemove'
handleMouseMove ==
    /\ \E f \in ClientFractions2 :
          IF ParallaxActive(isMouseOverCanvas)
          THEN /\ targetBackgroundX' = TargetFor(f[1])
               /\ targetBackgroundY' = TargetFor(f[2])
          ELSE UNCHANGED <<targetBackgroundX, targetBackgroundY>>
    /\ op' = "docMousemove"
    /\ UNCHANGED <<isMouseOverCanvas, currentBackgroundX, currentBackgroundY, backgroundPosition,
                   lerpSteps, calcVars, scrollVars, loadVars, domVars, morePageVars, twVars, btnVars, physVars>>

\* canvasContainer 'mouseenter'
CanvasContainerEnter ==
    /\ isMouseOverCanvas' = TRUE
    /\ targetBackgroundX' = 0
    /\ targetBackgroundY' = 0
    /\ op' = "canvasEnter"
    /\ UNCHANGED <<currentBackgroundX, currentBackgroundY, backgroundPosition, lerpSteps,
                   calcVars, scrollVars, loadVars, domVars, morePageVars, twVars, btnVars, physVars>>

\* canvasContainer 'mouseleave'
CanvasContainerLeave ==
    /\ isMouseOverCanvas' = FALSE
    /\ op' = "canvasLeave"
    /\ UNCHANGED <<targetBackgroundX, targetBackgroundY, currentBackgroundX, currentBackgroundY,
                   backgroundPosition, lerpSteps, calcVars, scrollVars, loadVars, domVars, morePageVars,
                   twVars, btnVars, physVars>>

\* document 'mouseleave' (handleMouseLeave of the parallax handler)
DocumentMouseLeave ==
    /\ targetBackgroundX' = 0
    /\ targetBackgroundY' = 0
    /\ op' = "docMouseleave"
    /\ UNCHANGED <<isMouseOverCanvas, currentBackgroundX, currentBackgroundY, backgroundPosition,
                   lerpSteps, calcVars, scrollVars, loadVars, domVars, morePageVars, twVars, btnVars, physVars>>

\* The frame callback of the scroll listener neither reads nor writes the
\* parallax state (RenderFrame), so the page is scrolled here without it.
NextParallax ==
    \/ updateParallax
    \/ handleMouseMove
    \/ CanvasContainerEnter
    \/ CanvasContainerLeave
    \/ DocumentMouseLeave
    \/ ScrollEvent

(***************************************************************************)
(* Cursor blink (blinkCursor of initTextAnimation, on a 530 ms interval)   *)
(***************************************************************************)
\* A style that shows the cursor when the flag says hidden.
CursorStyleFor_Inverted(visible) == IF visible THEN "hidden" ELSE "visible"

\* cursorVisible ? 'visible' : 'hidden'
CursorStyleFor(visible) == IF visible THEN "visible" ELSE "hidden"

\* The cursor is drawn unless its inline visibility is 'hidden'.
CursorShown(style) == style # "hidden"

\* let cursorVisible = true; the inline style is not set before the first tick
InitCursor ==
    /\ cursorVisible = TRUE
    /\ cursorStyle = ""

\* A tick of setInterval(blinkCursor, 530).
blinkCursor ==
    /\ cursorVisible' = ~cursorVisible
    /\ cursorStyle' = CursorStyleFor(cursorVisible')
    /\ op' = "blink"
    /\ UNCHANGED <<twVars, btnVars, physVars, calcVars, scrollVars, loadVars, domVars,
                   parallaxVars, ueVars, lateVars>>

\* The typewriter and the cursor.
NextBlink ==
    \/ TwFrame
    \/ TwTimeoutScript
    \/ TwTimeoutSuffix
    \/ blinkCursor

(***************************************************************************)
(* Section styling of part_002 (initAnimations: updateElement, called for  *)
(* every section by updateParallax on wheel events).  One section is       *)
(* followed at a time; updateElement handles each element on its own.      *)
(***************************************************************************)
\* scrollRanges
UeSections == {"header", "typingBlock", "registration", "container", "feed"}

ScrollRange(sec) ==
    CASE sec = "header" -> Window(0, 1000)
      [] sec = "typingBlock" -> Window(200, 1200)
      [] sec = "registration" -> Window(300, 1400)
      [] sec = "container" -> Window(1100, 1400)
      [] OTHER -> Window(1800, 3000)

\* The values window.scrollY takes.
UeOffsets == {0, 900, 1300, 1400, 3000}

\* At most MaxUeTimers timers of updateElement are pending.
MaxUeTimers == 2

\* a < b for fractions with positive denominators
FracLt(a, b) == ~FracLe(b, a)

\* The branch updateElement takes for the progress p:
\* progress < 0.999999 && progress > 0.66, progress === 0, progress > 0.999, else
UeBranch(p) ==
    IF FracLt(p, Frac(999999, 1000000)) /\ FracLt(Frac(66, 100), p) THEN "delayed"
    ELSE IF p.num = 0 THEN "top"
    ELSE IF FracLt(Frac(999, 1000), p) THEN "star"
    ELSE "now"

UeStyle(kind, at, opacity, children) ==
    [kind |-> kind, at |-> at, opacity |-> opacity, children |-> children]

\* The styles the 500 ms timer of a branch writes: the transform (its kind
\* and the offset it was computed from; the star's depends on the range
\* only) and the opacity of the children.
TimerStyle(st, t) ==
    [st EXCEPT !.kind = t.kind, !.at = t.at, !.children = IF t.kind = "star" THEN 0 ELSE 1]

\* The branches of updateElement that write the styles at once.
UpdateNow(branch) == branch \in {"top", "now"}

\* The inline style that the offset y alone determines for the section.
ExpectedStyle(sec, y) ==
    LET branch == UeBranch(calculateProgress(y, ScrollRange(sec).start, ScrollRange(sec).end))
    IN  CASE branch = "top" -> UeStyle("top", y, 1, 1)
          [] branch = "star" -> UeStyle("star", ScrollRange(sec).end, 1, 0)
          [] OTHER -> UeStyle("scaled", y, 1, 1)

\* The page after initAnimations: scrolled to the top, no section styled yet
\* (updateParallax is only called by the wheel listener).
InitUe ==
    /\ ueSection = "header"
    /\ ueScroll = 0
    /\ ueStyle = UeStyle("initial", 0, 1, 1)
    /\ ueTimers = <<>>
    /\ ueFades = 0
    /\ ueEvaluated = -1

\* The vertical scroll offset changes (wheel, keyboard, scrollbar, script);
\* no listener of initAnimations is registered for it.
UeScrolled ==
    /\ \E y \in UeOffsets \ {ueScroll} : ueScroll' = y
    /\ op' = "ueScrolled"
    /\ UNCHANGED <<ueSection, ueStyle, ueTimers, ueFades, ueEvaluated, twVars, btnVars, physVars,
                   calcVars, scrollVars, loadVars, domVars, parallaxVars, cursorVars,
                   lateVars>>

\* window 'wheel': updateParallax(window.scrollY), that is updateElement for
\* the section at the offset as it is when the listener runs.
UeWheel ==
    /\ LET range == ScrollRange(ueSection)
           branch == UeBranch(calculateProgress(ueScroll, range.start, range.end))
       IN  IF UpdateNow(branch)
           THEN /\ ueStyle' = ExpectedStyle(ueSection, ueScroll)
                /\ UNCHANGED ueTimers
           ELSE /\ Len(ueTimers) + ueFades < MaxUeTimers
                /\ ueStyle' = [ueStyle EXCEPT !.opacity = 0]
                /\ ueTimers' = Append(ueTimers,
                                      [kind |-> IF branch = "star" THEN "star" ELSE "scaled",
                                       at |-> IF branch = "star" THEN range.end ELSE ueScroll])
    /\ ueEvaluated' = ueScroll
    /\ op' = "wheel"
    /\ UNCHANGED <<ueSection, ueScroll, ueFades, twVars, btnVars, physVars, calcVars, scrollVars,
                   loadVars, domVars, parallaxVars, cursorVars,
                   lateVars>>

\* The oldest 500 ms timer of updateElement fires: it writes the styles of
\* its branch and starts the 300 ms timer.
UeTimeout ==
    /\ ueTimers # <<>>
    /\ ueStyle' = TimerStyle(ueStyle, Head(ueTimers))
    /\ ueTimers' = Tail(ueTimers)
    /\ ueFades' = ueFades + 1
    /\ op' = "ueTimeout"
    /\ UNCHANGED <<ueSection, ueScroll, ueEvaluated, twVars, btnVars, physVars, calcVars,
                   scrollVars, loadVars, domVars, parallaxVars, cursorVars,
                   lateVars>>

\* A 300 ms timer fires: element.style.opacity = '1'.
UeFadeIn ==
    /\ ueFades > 0
    /\ ueFades' = ueFades - 1
    /\ ueStyle' = [ueStyle EXCEPT !.opacity = 1]
    /\ op' = "ueFadeIn"
    /\ UNCHANGED <<ueSection, ueScroll, ueTimers, ueEvaluated, twVars, btnVars, physVars,
                   calcVars, scrollVars, loadVars, domVars, parallaxVars, cursorVars,
                   lateVars>>

NextUe ==
    \/ UeScrolled
    \/ UeWheel
    \/ UeTimeout
    \/ UeFadeIn

(***************************************************************************)
(* Upgrade icons (initUpgradeAnimation).  script2.js awaits the icons of   *)
(* a sequence and follows isContainerVisible; part_000 and part_002 run    *)
(* one loop on timers.  Timers of part_000 carry the time left in ms.      *)
(***************************************************************************)
UpVariants == {"script2", "part_000"}

\* const numIcons = 3
numIcons == 3
\* const iconDelay = 400
iconDelay == 400
\* const animationDuration = 1600
animationDuration == 1600
\* setTimeout(animateSequence, 1000)
StartDelay == 1000

\* Array.from({ length: 3 }, ...) and for (let i = 0; i < 3; i++)
IconIndexes == {0, 1, 2}

\* At most MaxInstances calls of initUpgradeAnimation have timers pending.
MaxInstances == 2
Instances == 1..MaxInstances

\* document.documentElement.scrollHeight - window.innerHeight
UpScrollable == 1000
\* The values window.pageYOffset takes in the visibility handler.
UpOffsets == {0, 200, 201}

\* scrollPercentage > 20
UpHidePercent == 20
PastUpgrade(y) == y * 100 > UpHidePercent * UpScrollable

\* createIcon(type, number), appended by call inst
Icon(inst, type, index, number) ==
    [inst |-> inst, type |-> type, index |-> index, number |-> number]

NoIcon == [type |-> "none", number |-> 0]

\* The closure of a call that has no timer pending, and of a fresh call.
NoInstance ==
    [pc |-> "none", currentIcon |-> 0, isAnimating |-> FALSE, activeIcons |-> {},
     last |-> NoIcon]
NewInstance == [NoInstance EXCEPT !.pc = "start"]

UpTimer(left, kind, type, index, number) ==
    [left |-> left, kind |-> kind, type |-> type, index |-> index, number |-> number]

\* A hide transition that leaves the icons in the container.
RemoveUpgradeIcons_Keep(dom) == dom

\* container.querySelectorAll('.upgrade-icon').forEach(icon => icon.remove())
RemoveUpgradeIcons(dom) == {}

\* The icons of the three animateIcon(type, i, 0) calls of call inst: each
\* call creates one unless the container is hidden.
AnimateIcons(inst, type, visible) ==
    IF visible
    THEN {Icon(inst, type, k, upInst[inst].currentIcon + 1) : k \in IconIndexes}
    ELSE {}

\* cleanupAllIcons(): every icon of activeIcons leaves the container.
CleanedDom(inst) == upDom \ upInst[inst].activeIcons

\* The latest icon created, for the history.
LastOf(icons, last) ==
    IF icons = {} THEN last
    ELSE LET ic == CHOOSE x \in icons : TRUE IN [type |-> ic.type, number |-> ic.number]

\* animateSequence() of call inst up to its first await, given the closure.
RunSequence(inst, closure) ==
    IF closure.isAnimating \/ ~isContainerVisible
    THEN /\ upInst' = [upInst EXCEPT ![inst] = NoInstance]
         /\ UNCHANGED upDom
    ELSE LET icons == AnimateIcons(inst, "before", isContainerVisible)
         IN  /\ upInst' = [upInst EXCEPT ![inst] = [pc |-> "before",
                                                    currentIcon |-> closure.currentIcon,
                                                    isAnimating |-> TRUE,
                                                    activeIcons |-> icons,
                                                    last |-> LastOf(icons, closure.last)]]
             /\ upDom' = CleanedDom(inst) \cup icons

\* A return of animateSequence after an await found the container hidden.
AbortSequence(inst) ==
    /\ upInst' = [upInst EXCEPT ![inst] = NoInstance]
    /\ upDom' = CleanedDom(inst)

UpOthers ==
    <<twVars, btnVars, physVars, calcVars, scrollVars, loadVars, domVars, parallaxVars,
      cursorVars, ueVars>>

\* The state after DOMContentLoaded: initUpgradeAnimation has been called by
\* both handlers of script2.js, by the one handler of part_000.
InitUpgradeFor(V) ==
    /\ upVariant \in V
    /\ isContainerVisible = TRUE
    /\ upInst = [i \in Instances |->
                    IF upVariant = "script2" /\ i <= 2 THEN NewInstance
                    ELSE IF upVariant = "part_000" /\ i = 1
                         THEN [NoInstance EXCEPT !.pc = "loop"]
                         ELSE NoInstance]
    /\ upDom = {}
    /\ upTimers = IF upVariant = "part_000"
                  THEN {UpTimer(StartDelay, "sequence", "none", 0, 0)}
                  ELSE {}

InitUpgrade == InitUpgradeFor({"script2"})

\* script2.js: the timer of setTimeout(animateSequence, 1000) fires.
UpStartTimer ==
    /\ \E i \in Instances :
          /\ upInst[i].pc = "start"
          /\ RunSequence(i, upInst[i])
    /\ op' = "upStart"
    /\ UNCHANGED <<upVariant, isContainerVisible, upTimers, feedVars, UpOthers>>

\* script2.js: the cleanup timer of the oldest icon of a call fires; with
\* the last one Promise.all resolves and animateSequence continues.
UpCleanupTimer ==
    /\ \E i \in Instances :
          /\ upInst[i].pc \in {"before", "after"}
          /\ upInst[i].activeIcons # {}
          /\ LET icon == CHOOSE x \in upInst[i].activeIcons :
                             \A y \in upInst[i].activeIcons : x.index <= y.index
                 left == upInst[i].activeIcons \ {icon}
             IN  IF left # {}
                 THEN /\ upInst' = [upInst EXCEPT ![i].activeIcons = left]
                      /\ upDom' = upDom \ {icon}
                 ELSE IF upInst[i].pc = "before"
                 THEN IF ~isContainerVisible
                      THEN AbortSequence(i)
                      ELSE /\ upInst' = [upInst EXCEPT ![i].activeIcons = {}, ![i].pc = "gap"]
                           /\ upDom' = upDom \ {icon}
                 ELSE /\ upInst' = [upInst EXCEPT
                                       ![i].activeIcons = {},
                                       ![i].currentIcon = (@ + 1) % numIcons,
                                       ![i].pc = "resched"]
                      /\ upDom' = upDom \ {icon}
    /\ op' = "upCleanup"
    /\ UNCHANGED <<upVariant, isContainerVisible, upTimers, feedVars, UpOthers>>

\* script2.js: the 200 ms timer between the two halves of a sequence fires.
UpGapTimer ==
    /\ \E i \in Instances :
          /\ upInst[i].pc = "gap"
          /\ IF ~isContainerVisible
             THEN AbortSequence(i)
             ELSE LET icons == AnimateIcons(i, "after", isContainerVisible)
                  IN  /\ upInst' = [upInst EXCEPT ![i].activeIcons = icons,
                                                   ![i].pc = "after",
                                                   ![i].last = LastOf(icons, @)]
                      /\ upDom' = upDom \cup icons
    /\ op' = "upGap"
    /\ UNCHANGED <<upVariant, isContainerVisible, upTimers, feedVars, UpOthers>>

\* script2.js: the 500 ms timer at the end of a sequence fires.
UpReschedTimer ==
    /\ \E i \in Instances :
          /\ upInst[i].pc = "resched"
          /\ IF isContainerVisible
             THEN RunSequence(i, [upInst[i] EXCEPT !.isAnimating = FALSE])
             ELSE /\ upInst' = [upInst EXCEPT ![i] = NoInstance]
                  /\ UNCHANGED upDom
    /\ op' = "upResched"
    /\ UNCHANGED <<upVariant, isContainerVisible, upTimers, feedVars, UpOthers>>

\* script2.js: a frame requested by the scroll listener of the visibility
\* handler runs with the page at offset y (ticking admits one callback per
\* frame).  Showing the container calls initUpgradeAnimation once more.
UpScrollFrame ==
    /\ upVariant = "script2"
    /\ \E y \in UpOffsets :
          IF PastUpgrade(y) /\ isContainerVisible
          THEN /\ isContainerVisible' = FALSE
               /\ upDom' = RemoveUpgradeIcons(upDom)
               /\ UNCHANGED upInst
          ELSE IF ~PastUpgrade(y) /\ ~isContainerVisible
          THEN /\ isContainerVisible' = TRUE
               /\ \E i \in Instances :
                     /\ upInst[i] = NoInstance
                     /\ \A j \in Instances : j < i => upInst[j] # NoInstance
                     /\ upInst' = [upInst EXCEPT ![i] = NewInstance]
               /\ UNCHANGED upDom
          ELSE UNCHANGED <<isContainerVisible, upDom, upInst>>
    /\ op' = "upFrame"
    /\ UNCHANGED <<upVariant, upTimers, feedVars, UpOthers>>

\* part_000: what animateSequence schedules, and its counter afterwards.
SequenceTimers ==
    {UpTimer(k * iconDelay, "create", "before", k, 0) : k \in IconIndexes}
    \cup {UpTimer(iconDelay * 6 + k * iconDelay, "create", "after", k, 0) : k \in IconIndexes}
    \cup {UpTimer(iconDelay * 6 + 3 * iconDelay + animationDuration, "sequence", "none", 0, 0)}

\* if (currentIcon >= numIcons) currentIcon = 0; ...; currentIcon++
CounterAfterSequence(c) == (IF c >= numIcons THEN 0 ELSE c) + 1

\* part_000: the timer that is due next fires.
UpTimerFire ==
    /\ \E t \in upTimers :
          /\ \A u \in upTimers : t.left <= u.left
          /\ LET rest == {[u EXCEPT !.left = @ - t.left] : u \in upTimers \ {t}}
                 icon == Icon(1, t.type, t.index, upInst[1].currentIcon + 1)
             IN  CASE t.kind = "sequence" ->
                        /\ upInst' = [upInst EXCEPT
                                         ![1].currentIcon = CounterAfterSequence(@)]
                        /\ upTimers' = rest \cup SequenceTimers
                        /\ UNCHANGED upDom
                   [] t.kind = "create" ->
                        /\ upDom' = upDom \cup {icon}
                        /\ upTimers' = rest \cup {UpTimer(animationDuration + 100, "remove",
                                                          t.type, t.index, icon.number)}
                        /\ upInst' = [upInst EXCEPT ![1].last = LastOf({icon}, @)]
                   [] OTHER ->
                        /\ upDom' = upDom \ {Icon(1, t.type, t.index, t.number)}
                        /\ upTimers' = rest
                        /\ UNCHANGED upInst
    /\ op' = "upTimer"
    /\ UNCHANGED <<upVariant, isContainerVisible, feedVars, UpOthers>>

NextUpgrade ==
    \/ UpStartTimer
    \/ UpCleanupTimer
    \/ UpGapTimer
    \/ UpReschedTimer
    \/ UpScrollFrame
    \/ UpTimerFire

(***************************************************************************)
(* Feed images (handleScroll of script2.js).  Percentages are compared by  *)
(* cross-multiplication: scrollPercentage is scrollPosition * 100 divided  *)
(* by totalScrollHeight - windowHeight.                                    *)
(***************************************************************************)
\* window.innerHeight
WindowHeight == 100
\* const totalScrollHeight = window.innerHeight * 3
totalScrollHeight == WindowHeight * 3

\* feed.querySelectorAll('img'): the images have the indexes 0..NumFeedImages-1
NumFeedImages == 7
FeedImages == 0..(NumFeedImages - 1)

\* The values window.pageYOffset takes in the feed driver: the percentages
\* 0, 30, 31, 45, 55, 60, 79, 80 and 90 of the scrollable height.
FeedOffsets ==
    {(p * (totalScrollHeight - WindowHeight)) \div 100 : p \in {0, 30, 31, 45, 55, 60, 79, 80, 90}}

\* scrollPercentage > p and scrollPercentage < p, scrollPercentage >= p
PercentAbove(y, p) == y * 100 > p * (totalScrollHeight - WindowHeight)
PercentBelow(y, p) == y * 100 < p * (totalScrollHeight - WindowHeight)
PercentAtLeast(y, p) == ~PercentBelow(y, p)

\* let imageScrollStart = 30 + (index * 4)
imageScrollStart(index) == 30 + (index * 4)

\* let imageScrollEnd = imageScrollStart + 30, with the two overrides
imageScrollEnd(index) ==
    IF index > 5 THEN imageScrollStart(index) - 10
    ELSE IF index > 3 THEN imageScrollStart(index) + 29
    ELSE imageScrollStart(index) + 30

\* A hiding branch that leaves 'visible' in place.
HideImage_KeepVisible(cls) == cls \cup {"hidden"}

\* img.classList.add('hidden'); img.classList.remove('visible')
HideImage(cls) == (cls \cup {"hidden"}) \ {"visible"}

\* img.classList.add('visible'); img.classList.remove('hidden')
ShowImage(cls) == (cls \cup {"visible"}) \ {"hidden"}

\* The classes of image index after the forEach body ran at offset y.
ImageClasses(index, y, cls) ==
    IF PercentAbove(y, imageScrollStart(index)) /\ PercentBelow(y, imageScrollEnd(index))
    THEN ShowImage(cls)
    ELSE IF PercentAtLeast(y, imageScrollEnd(index))
    THEN HideImage(cls)
    ELSE cls \ {"visible", "hidden"}

\* if (scrollPercentage > 30 && scrollPercentage < 80)
InFeedRange(y) == PercentAbove(y, 30) /\ PercentBelow(y, 80)

\* What handleScroll writes besides the image classes: the background
\* offset and the feed offset in tenths of a pixel, the class of the
\* container and the class of the try-free button.
FeedStyle(y, old) ==
    [background10 |-> -y,
     containerHidden |-> PercentAbove(y, UpHidePercent),
     feedY10 |-> IF InFeedRange(y) THEN 10 * WindowHeight - (10 * y - 3 * WindowHeight)
                 ELSE old.feedY10,
     tryFree |-> PercentAbove(y, 85)]

\* The image classes after handleScroll ran at offset y.
FeedClassesAfter(y, classes) ==
    IF InFeedRange(y)
    THEN [i \in FeedImages |-> ImageClasses(i, y, classes[i])]
    ELSE classes

\* The state after the DOMContentLoaded handler: scrolled to the top and
\* handleScroll called once; the images carry no class of their own.
InitFeed ==
    /\ feedOffset = 0
    /\ feedTicking = FALSE
    /\ feedClasses = FeedClassesAfter(0, [i \in FeedImages |-> {}])
    /\ feedStyle = FeedStyle(0, [feedY10 |-> 0])

FeedOthers == <<upVars, UpOthers>>

\* window 'scroll' seen by the feed driver.
FeedScroll ==
    /\ \E y \in FeedOffsets \ {feedOffset} : feedOffset' = y
    /\ feedTicking' = TRUE
    /\ op' = "feedScroll"
    /\ UNCHANGED <<feedClasses, feedStyle, FeedOthers>>

\* The frame requested by the scroll listener: handleScroll().
FeedFrame ==
    /\ feedTicking
    /\ feedClasses' = FeedClassesAfter(feedOffset, feedClasses)
    /\ feedStyle' = FeedStyle(feedOffset, feedStyle)
    /\ feedTicking' = FALSE
    /\ op' = "feedFrame"
    /\ UNCHANGED <<feedOffset, FeedOthers>>

NextFeed == FeedScroll \/ FeedFrame

\* The state of both drivers after load.
InitLate == InitUpgrade /\ InitFeed

\* The page-level state added after the parallax, after load.
InitMorePage == InitCursor /\ InitUe /\ InitLate

\* The page-level drivers after load.
InitPage ==
    InitCalc /\ InitScroll /\ InitLoadDone /\ InitDomDone /\ InitParallax /\ InitMorePage

Init == /\ op = "init"
        /\ InitTw
        /\ InitBtn
        /\ InitPhys
        /\ InitPage

SpecTw == Init /\ [][NextTw]_vars

\* Every scheduled timer and every requested frame eventually fires.
FairSpecTw ==
    SpecTw /\ WF_vars(TwFrame) /\ WF_vars(TwTimeoutScript) /\ WF_vars(TwTimeoutSuffix)

InitScript == Init /\ variant = "script"

SpecBtn == InitScript /\ [][NextBtn]_vars

SpecPhys == InitScript /\ [][NextPhys]_vars

\* Time passes and every due removal timer eventually fires.
FairSpecBtn == SpecBtn /\ WF_vars(BtnTick) /\ WF_vars(RemoveTimerFire)

\* script.js and part_001 set up, with the pointer anywhere.
InitGate ==
    /\ op = "init"
    /\ InitTw /\ variant = "script"
    /\ InitBtn
    /\ InitPhysFor({"script", "part_001"}, BOOLEAN, SpawnedBodies, {SetupWorld})
    /\ InitPage

SpecGate == InitGate /\ [][NextGate]_vars

\* script2.js set up.
InitCeiling ==
    /\ op = "init"
    /\ InitTw /\ variant = "script"
    /\ InitBtn
    /\ InitPhysFor({"script2"}, {FALSE}, SpawnedBodies, {SetupWorld})
    /\ InitPage

SpecWorld == InitCeiling /\ [][NextWorld]_vars

\* Any of the three variants set up.
InitLife ==
    /\ op = "init"
    /\ InitTw /\ variant = "script"
    /\ InitBtn
    /\ InitPhysFor(PhysVariants, {FALSE}, SpawnedBodies, {SetupWorld})
    /\ InitPage

SpecLife == InitLife /\ [][NextLife]_vars

\* script.js or script2.js set up.
InitResize ==
    /\ op = "init"
    /\ InitTw /\ variant = "script"
    /\ InitBtn
    /\ InitPhysFor({"script", "script2"}, {FALSE}, SpawnedBodies, {SetupWorld})
    /\ InitPage

SpecResize == InitResize /\ [][NextResize]_vars

\* The two progress functions called for every window and offset.
InitCalcAll ==
    /\ op = "init"
    /\ InitTw /\ variant = "script"
    /\ InitBtn
    /\ InitPhys
    /\ InitCalcFor(ScrollWindows, ScrollOffsets)
    /\ InitScroll
    /\ InitLoadDone
    /\ InitDomDone
    /\ InitParallax
    /\ InitMorePage

SpecCalc == InitCalcAll /\ [][NextCalc]_vars

SpecScroll == InitScript /\ [][NextScroll]_vars

\* initPhysics of script.js called, the world not yet set up.
InitLoading ==
    /\ op = "init"
    /\ InitTw /\ variant = "script"
    /\ InitBtn
    /\ InitPhysFor({"script"}, {FALSE}, {NoBodies}, {NoWorld})
    /\ InitCalc /\ InitScroll
    /\ InitLoadFor({"complete", "loading"})
    /\ InitDomDone
    /\ InitParallax
    /\ InitMorePage

SpecLoad == InitLoading /\ [][NextLoad]_vars

\* script.js or script2.js loaded on a page with any subset of the elements.
InitDomAll ==
    /\ op = "init"
    /\ InitTw /\ variant = "script"
    /\ InitBtn
    /\ InitPhysFor({"script", "script2"}, {FALSE}, SpawnedBodies, {SetupWorld})
    /\ InitCalc /\ InitScroll /\ InitLoadDone
    /\ InitDomFor(SUBSET PageElements)
    /\ InitParallax
    /\ InitMorePage

SpecDom == InitDomAll /\ [][NextDom]_vars

SpecParallax == InitScript /\ [][NextParallax]_vars

SpecBlink == Init /\ [][NextBlink]_vars

\* part_002 loaded, with any one of its sections followed.
InitUeAll ==
    /\ op = "init"
    /\ InitTw /\ variant = "script"
    /\ InitBtn
    /\ InitPhys
    /\ InitCalc /\ InitScroll /\ InitLoadDone /\ InitDomDone /\ InitParallax /\ InitCursor
    /\ ueSection \in UeSections
    /\ ueScroll = 0
    /\ ueStyle = UeStyle("initial", 0, 1, 1)
    /\ ueTimers = <<>>
    /\ ueFades = 0
    /\ ueEvaluated = -1
    /\ InitLate

SpecUe == InitUeAll /\ [][NextUe]_vars

\* Either variant of the upgrade icons after load.
InitUpgradeAll ==
    /\ op = "init"
    /\ InitTw /\ variant = "script"
    /\ InitBtn
    /\ InitPhysFor({"script2"}, {FALSE}, {CHOOSE b \in SpawnedBodies : TRUE}, {SetupWorld})
    /\ InitCalc /\ InitScroll /\ InitLoadDone /\ InitDomDone /\ InitParallax
    /\ InitCursor /\ InitUe
    /\ InitUpgradeFor(UpVariants) /\ InitFeed

SpecUpgrade == InitUpgradeAll /\ [][NextUpgrade]_vars

\* script2.js after load, the feed at the top of the page.
InitFeedAll ==
    /\ op = "init"
    /\ InitTw /\ variant = "script"
    /\ InitBtn
    /\ InitPhysFor({"script2"}, {FALSE}, {CHOOSE b \in SpawnedBodies : TRUE}, {SetupWorld})
    /\ InitPage

SpecFeed == InitFeedAll /\ [][NextFeed]_vars

\* Every timer that has been set eventually fires.
FairSpecUe == SpecUe /\ WF_vars(UeTimeout) /\ WF_vars(UeFadeIn)

\* Every loading image eventually fires load or error, and the continuation
\* of a resolved Promise.all eventually runs.
FairSpecLoad == SpecLoad /\ WF_vars(ImageLoad \/ ImageError) /\ WF_vars(SetupStart)

(***************************************************************************)
(* Typewriter claims                                                       *)
(***************************************************************************)
\* The four states of the typewriter, read off the pending timer and the flag.
Phase ==
    IF twTimer.delay = LongPause THEN "pause-before-delete"
    ELSE IF twTimer.delay = NextPhraseDelay THEN "pause-before-next"
    ELSE IF isDeleting THEN "deleting"
    ELSE "typing"

PhaseOrder ==
    { <<"typing", "pause-before-delete">>,
      <<"pause-before-delete", "deleting">>,
      <<"deleting", "pause-before-next">>,
      <<"pause-before-next", "typing">> }

\* The writes the claim expects for a phrase of length n: prefixes 0..n
\* while typing, then prefixes n-1..0 while deleting.
ExpectedWrites(n) ==
    [i \in 1..(n + 1) |-> <<"typing", i - 1>>] \o [i \in 1..n |-> <<"deleting", n - i>>]

\* C2: in the script.js typewriter, when the phrase index advances, the text
\* writes of the finished phrase of length N were exactly the N+1 typing
\* prefixes 0..N followed by exactly the N deleting prefixes N-1..0, and the
\* index advances to (index + 1) modulo the list length.
C2_WritesPerPhrase ==
    [][(variant = "script" /\ phraseIndex' # phraseIndex)
          => /\ writes = ExpectedWrites(Len(currentPhrase))
             /\ phraseIndex' = (phraseIndex + 1) % Len(phrases)]_vars

\* C3: in every variant the character count is never negative, and it is 0
\* while the pause before typing the next phrase is pending.
C3_CharIndexNonNegative ==
    /\ charIndex >= 0
    /\ (twTimer = StepTimer(NextPhraseDelay) => charIndex = 0)

\* C4: the phrase index only moves from i to (i + 1) mod 6 and stays in 0..5,
\* and when every timer and frame eventually fires each of the six phrases is
\* displayed in full infinitely often.
C4_PhraseCycling ==
    /\ [][phraseIndex' = phraseIndex \/ phraseIndex' = (phraseIndex + 1) % 6]_vars
    /\ [](phraseIndex \in 0..5)
    /\ \A i \in 0..5 : []<>(phraseIndex = i /\ textContent = PhraseList[i + 1])

\* C4 witness: the script.js typewriter has wrapped from the last phrase to
\* the first (character count 0 after a typePhrase run happens only then).
C4_Witness ==
    /\ variant = "script" /\ op = "typePhrase"
    /\ phraseIndex = 0 /\ charIndex = 0 /\ twTimer = StepTimer(NextPhraseDelay)

\* C5: the typewriter moves only typing -> pause-before-delete -> deleting ->
\* pause-before-next -> typing; the deleting flag is raised only by the long
\* pause timer with the full phrase displayed; during pause-before-delete
\* the text is the full phrase and no step changes it; during
\* pause-before-next the text is empty.
C5_StateOrder ==
    [][/\ (Phase' # Phase => <<Phase, Phase'>> \in PhaseOrder)
       /\ ((isDeleting' /\ ~isDeleting)
              => /\ twTimer = LongPauseTimer
                 /\ textContent = currentPhrase)
       /\ (Phase = "pause-before-delete"
              => /\ textContent = currentPhrase
                 /\ textContent' = textContent)
       /\ (Phase = "pause-before-next" => textContent = <<>>)
       /\ (Phase' = "pause-before-next" => textContent' = <<>>)]_vars

\* C5 witness: the second phrase is fully typed and the long pause is
\* pending, so all four states have been passed through once.
C5_Witness ==
    /\ phraseIndex = 1 /\ Phase = "pause-before-delete"
    /\ textContent = currentPhrase /\ ~isDeleting

(***************************************************************************)
(* Button feedback claims                                                  *)
(***************************************************************************)
\* C6: a pointer-down applies the class only if strictly more than 120 ms
\* have passed since lastClickTime and since the last pointer-down that
\* applied it (so of two pointer-downs at most 120 ms apart at most one
\* applies it); one that applies it puts the class on every element and
\* records the time; a rejected one leaves lastClickTime and the classes
\* unchanged.
C6_Debounce ==
    [][op' = "mousedown"
          => /\ (downLog'.applied
                    => /\ dateNow - lastClickTime > 120
                       /\ (downLog.appliedAt >= 0 => dateNow - downLog.appliedAt > 120)
                       /\ fastClick' = Elements
                       /\ lastClickTime' = dateNow)
             /\ (~downLog'.applied => UNCHANGED <<lastClickTime, fastClick>>)]_vars

\* C6 witness: a pointer-down exactly 120 ms after the one that applied the
\* class has been rejected.
C6_Witness ==
    /\ op = "mousedown" /\ ~downLog.applied
    /\ downLog.appliedAt >= 0 /\ dateNow - downLog.appliedAt = 120
    /\ lastClickTime = downLog.appliedAt

\* C7: a pointer-up schedules the removal exactly 120 ms later, the removal
\* callback runs at its due time and clears the class from the button and
\* all descendants, a pointer-leave clears it in the same step, and after a
\* pointer-up or pointer-leave the class is eventually absent everywhere
\* unless a further pointer-down occurs.
C7_Removal ==
    /\ [][/\ (op' = "mouseup" => (dateNow + 120) \in removeTimers')
          /\ (op' = "removeTimer"
                 => /\ fastClick' = {}
                    /\ dateNow \in removeTimers
                    /\ dateNow \notin removeTimers')
          /\ (op' = "mouseleave" => fastClick' = {})]_vars
    /\ ((op \in {"mouseup", "mouseleave"}) ~> (fastClick = {} \/ op = "mousedown"))

\* C7 witness: the removal timer of a pointer-up has fired one window after
\* the pointer-down that applied the class, and the class is gone.
C7_Witness ==
    /\ op = "removeTimer" /\ fastClick = {}
    /\ downLog.applied /\ dateNow = downLog.appliedAt + 120

(***************************************************************************)
(* Falling-sprite claims                                                   *)
(***************************************************************************)
\* Distance of body b from the position of the sample just handled.
SampleDistance(b) == Magnitude(VSub(Vec(bodies[b].x, bodies[b].y), sample'.pos))

\* Magnitude of a force, in force units.
ForceMagnitude(f) == Sqrt(f.x * f.x + f.y * f.y)

\* C1: whenever checkReset runs, every body whose position.y exceeds
\* containerHeight + 100 has, right after the run, position.y = -100 (negative),
\* velocity (0,0) and angular velocity 0.
C1_ResetOnFall ==
    [][op' = "checkReset"
          => \A b \in Bodies :
                bodies[b].y > ContainerHeight + 100
                   => /\ bodies'[b].y < 0 /\ bodies'[b].y = -100
                      /\ bodies'[b].vx = 0 /\ bodies'[b].vy = 0
                      /\ bodies'[b].av = 0]_vars

\* C1 witness: the second body, which starts at y = -200 and is never put at
\* y = -100 by the engine, sits at the reset target after a checkReset run.
C1_Witness ==
    /\ op = "checkReset"
    /\ bodies[1].y = -100 /\ bodies[1].vx = 0 /\ bodies[1].vy = 0 /\ bodies[1].av = 0

\* C8 (as stated): for a processed sample no force is applied to a body at
\* distance >= 100, and of two bodies the nearer one receives the strictly
\* larger force, whatever the pointer speed.
C8_Original ==
    [][(op' = "mousemove" /\ sample'.processed)
          => /\ \A b \in Bodies : SampleDistance(b) >= 100 => applied'[b] = NoForce
             /\ \A b1, b2 \in Bodies :
                   (SampleDistance(b1) < SampleDistance(b2) /\ SampleDistance(b2) <= 100)
                      => ForceMagnitude(applied'[b1]) > ForceMagnitude(applied'[b2])]_vars

\* C8 (amended): for a processed sample no force is applied to a body at
\* distance >= 100; the force is zero when the pointer speed is zero and for
\* a body exactly at the pointer; for a positive pointer speed, of two bodies
\* at distances 0 < d1 < d2 <= 100 the nearer receives the strictly larger
\* force.
C8_Falloff ==
    [][(op' = "mousemove" /\ sample'.processed)
          => /\ \A b \in Bodies : SampleDistance(b) >= 100 => applied'[b] = NoForce
             /\ \A b \in Bodies :
                   (Magnitude(sample'.vel) = 0 \/ SampleDistance(b) = 0)
                      => ForceMagnitude(applied'[b]) = 0
             /\ Magnitude(sample'.vel) > 0
                   => \A b1, b2 \in Bodies :
                         (/\ 0 < SampleDistance(b1)
                          /\ SampleDistance(b1) < SampleDistance(b2)
                          /\ SampleDistance(b2) <= 100)
                            => ForceMagnitude(applied'[b1]) > ForceMagnitude(applied'[b2])]_vars

\* C8 witness: a processed sample of positive speed pushed both bodies, the
\* nearer one strictly harder.
C8_Witness ==
    /\ op = "mousemove" /\ sample.processed /\ Magnitude(sample.vel) > 0
    /\ applied[0].on /\ applied[1].on
    /\ ForceMagnitude(applied[0]) > ForceMagnitude(applied[1])
    /\ ForceMagnitude(applied[1]) > 0

\* C9 (as stated): the force a processed sample applies to a body has
\* magnitude 0.05 * (1 - distance/100) * min(3, speed) and never exceeds 0.15.
C9_Original ==
    [][(op' = "mousemove" /\ sample'.processed)
          => \A b \in Bodies :
                applied'[b].on
                   => /\ ForceMagnitude(applied'[b]) * 1000 =
                            5000 * (100 - SampleDistance(b)) * Min(30, Magnitude(sample'.vel))
                      /\ ForceMagnitude(applied'[b]) <= 15000]_vars

\* C9 (amended): the force a processed sample applies to a body at distance
\* 0 < d < 100 has magnitude 0.05 * (1 - d/100) * min(3, speed), the force on
\* a body exactly at the pointer is zero, and no force exceeds 0.15.
C9_ForceCap ==
    [][(op' = "mousemove" /\ sample'.processed)
          => \A b \in Bodies :
                applied'[b].on
                   => /\ SampleDistance(b) > 0
                         => ForceMagnitude(applied'[b]) * 1000 =
                               5000 * (100 - SampleDistance(b)) * Min(30, Magnitude(sample'.vel))
                      /\ SampleDistance(b) = 0 => ForceMagnitude(applied'[b]) = 0
                      /\ ForceMagnitude(applied'[b]) <= 15000]_vars

\* C9 witness: a pointer flick faster than the cap (speed above 3) pushed a
\* body that is not at the pointer position.
C9_Witness ==
    /\ op = "mousemove" /\ sample.processed /\ Magnitude(sample.vel) > 30
    /\ processedPos = sample.pos /\ lastTime > SetupTime
    /\ \E b \in Bodies : applied[b].on /\ ForceMagnitude(applied[b]) > 0

\* C10: a mousemove arriving less than 16 ms after the last processed sample
\* applies no force and leaves lastMousePos, lastTime and the bodies
\* unchanged; the velocity of a processed sample is its displacement from
\* the position of the last processed sample.
C10_Throttle ==
    [][op' = "mousemove"
          => /\ (perfNow - lastTime < 16
                    => /\ ~sample'.processed
                       /\ applied' = NoForces
                       /\ UNCHANGED <<lastMousePos, lastTime, bodies>>)
             /\ (sample'.processed
                    => /\ perfNow - lastTime >= 16
                       /\ sample'.vel = VSub(sample'.pos, processedPos)
                       /\ lastMousePos' = sample'.pos
                       /\ lastTime' = perfNow)]_vars

\* C10 witness: a mousemove at another position, 15 ms after a processed
\* sample, has been dropped.
C10_Witness ==
    /\ op = "mousemove" /\ sample.event /\ ~sample.processed
    /\ lastTime >= SetupTime /\ perfNow - lastTime = 15
    /\ sample.pos # lastMousePos /\ lastMousePos = processedPos

C12_BodyCount ==
    /\ [](/\ DOMAIN bodies = 0..(NumBodies - 1)
          /\ world.sprites = DOMAIN bodies
          /\ Cardinality(world.sprites) = NumBodies)
    /\ [][/\ DOMAIN bodies' = DOMAIN bodies
          /\ world'.sprites = world.sprites
          /\ world'.walls = world.walls
          /\ world'.constraints = world.constraints
          /\ (world' # world => world'.ceilings = world.ceilings + 1)]_vars

\* C12 witness: the ceiling has been added, the resize update has moved the
\* walls, the second body has been reset, and a pointer sample has just
\* pushed a body.
C12_Witness ==
    /\ op = "mousemove" /\ (\E b \in Bodies : applied[b].on)
    /\ world.ceilings = 1 /\ walls # SetupWalls
    /\ bodies[1].y = -100
    /\ Cardinality(world.sprites) = NumBodies

\* C13: the ceiling is added at most once: topWallAdded never goes back to
\* false, the number of ceilings only changes from 0 to 1, in the step that
\* sets the flag, and never exceeds 1.
C13_CeilingOnce ==
    /\ [][topWallAdded => topWallAdded']_vars
    /\ [][world'.ceilings # world.ceilings
             => /\ ~topWallAdded /\ topWallAdded'
                /\ world.ceilings = 0 /\ world'.ceilings = 1]_vars
    /\ [](world.ceilings <= 1)
    /\ [](topWallAdded <=> world.ceilings = 1)

\* C13 witness: a checkReset run found all bodies settled with the ceiling
\* already in place, and added nothing.
C13_Witness ==
    /\ op = "checkReset" /\ frame.ran /\ frame.settled /\ ~frame.added
    /\ topWallAdded /\ world.ceilings = 1

\* C14: the ceiling is added only by a checkReset run in which every body has
\* |velocity.x| <= 0.1 and |velocity.y| <= 0.1 (1 in tenths) and no body is
\* reset (none is below containerHeight + 100, all are left as they were).
C14_CeilingTrigger ==
    [][world'.ceilings > world.ceilings
          => /\ op' = "checkReset"
             /\ \A b \in Bodies :
                   /\ Abs(bodies[b].vx) <= 1 /\ Abs(bodies[b].vy) <= 1
                   /\ ~(bodies[b].y > ContainerHeight + 100)
                   /\ bodies'[b] = bodies[b]]_vars

\* C14 witness: the ceiling has just been added while a body moves at exactly
\* 0.1 on both axes.
C14_Witness ==
    /\ op = "checkReset" /\ frame.added /\ world.ceilings = 1
    /\ \E b \in Bodies : Abs(bodies[b].vx) = 1 /\ Abs(bodies[b].vy) = 1

C16_ScrollProgress ==
    /\ [](calcInput.startPosition < calcInput.endPosition
            => /\ (calcInput.scrollPosition < calcInput.startPosition
                      => calcResult.transform.progress.num = 0)
               /\ (calcInput.scrollPosition > calcInput.endPosition
                      => calcResult.transform.progress.num = calcResult.transform.progress.den)
               /\ FracLe(Frac(0, 1), calcResult.transform.progress)
               /\ FracLe(calcResult.transform.progress, Frac(1, 1))
               /\ FracEq(calcResult.transform.progress, calcResult.progress))
    /\ [][(/\ calcInput.startPosition < calcInput.endPosition
           /\ calcInput'.scrollPosition >= calcInput.scrollPosition)
             => FracLe(calcResult.transform.progress, calcResult'.transform.progress)]_vars

\* C16 witness: a call strictly inside a window returned a progress strictly
\* between 0 and 1, the same from both functions.
C16_Witness ==
    /\ op = "calculate"
    /\ calcInput.startPosition < calcInput.scrollPosition
    /\ calcInput.scrollPosition < calcInput.endPosition
    /\ 0 < calcResult.transform.progress.num
    /\ calcResult.transform.progress.num < calcResult.transform.progress.den
    /\ FracEq(calcResult.transform.progress, calcResult.progress)

C18_SpriteLoader ==
    /\ [](resolved = {i \in Images : imgState[i] \in {"complete", "loaded", "failed"}})
    /\ [](setupStarted => \A i \in Images : imgState[i] # "loading")
    /\ [](~setupStarted => (bodies = NoBodies /\ world = NoWorld))
    /\ [][(setupStarted' /\ ~setupStarted)
             => (\A i \in Images : imgState[i] # "loading")]_vars
    /\ <>setupStarted

\* C18 witness: the world has been set up after one image loaded and another
\* one failed.
C18_Witness ==
    /\ op = "setup" /\ setupStarted /\ world = SetupWorld
    /\ \E i, j \in Images : imgState[i] = "loaded" /\ imgState[j] = "failed"

\* C19: a driver whose expected element is absent from the page short-circuits:
\* once its initialization has run it has neither started timers or
\* listeners nor raised an error.
C19_MissingElements ==
    \A drv \in Drivers :
       (~(Expected(drv) \subseteq present) /\ driver[drv] # "pending")
          => driver[drv] = "skipped"

\* C20: while isMouseOverCanvas is true the parallax target is (0,0); a step
\* that keeps the flag true (a pointer move, an updateParallax frame, a
\* scroll) leaves the target, currentBackgroundX/Y and the body background
\* position unchanged; any step that changes one of them starts in a state
\* where the flag is false, that is, before the pointer entered or after it
\* left the canvas container.
C20_ParallaxSuppression ==
    /\ [](isMouseOverCanvas => (targetBackgroundX = 0 /\ targetBackgroundY = 0))
    /\ [][(isMouseOverCanvas /\ isMouseOverCanvas')
            => UNCHANGED <<targetBackgroundX, targetBackgroundY, currentBackgroundX,
                           currentBackgroundY, backgroundPosition>>]_vars
    /\ [][(<<currentBackgroundX, currentBackgroundY, backgroundPosition>>'
               # <<currentBackgroundX, currentBackgroundY, backgroundPosition>>)
            => (~isMouseOverCanvas /\ ~isMouseOverCanvas')]_vars

\* updateParallax has run with the pointer over the canvas container while
\* the background was still away from its target and the page had been
\* scrolled since the position was written.
C20_Witness ==
    /\ op = "updateParallax"
    /\ isMouseOverCanvas
    /\ <<currentBackgroundX, currentBackgroundY>> # <<targetBackgroundX, targetBackgroundY>>
    /\ backgroundPosition # BackgroundPosition(currentBackgroundX, currentBackgroundY, scrollTop)

(***************************************************************************)
(* Lifetime, resize and cursor claims                                      *)
(***************************************************************************)
\* C21: until the teardown closure is called exactly one checkReset frame
\* callback is pending (before and after every run of checkReset); once it
\* has been called none is pending and checkReset never runs again.
C21_ResetLoop ==
    /\ [](teardown = "none" => resetFrames = 1)
    /\ [](teardown # "none" => resetFrames = 0)
    /\ [][teardown # "none" => op' # "checkReset"]_vars

\* The closure has been called after checkReset had run and added the
\* ceiling, and no callback is pending.
C21_Witness == teardown # "none" /\ topWallAdded /\ resetFrames = 0

\* C22: once the teardown closure has been called it has run to completion
\* without an error, the runner and the renderer are stopped, no checkReset
\* callback is pending and the canvas is no longer in the container.
C22_Teardown ==
    [](teardown # "none" =>
          /\ teardown = "done"
          /\ ~runnerOn /\ ~renderOn
          /\ resetFrames = 0
          /\ ~canvasInDom)

\* C23: at most one resize timer is pending at any time; the timer callback
\* that runs is the one set by the last resize event and runs when its full
\* 250 ms have passed, and no timer remains afterwards, so a burst of events
\* less than 250 ms apart causes a single wall update.
C23_ResizeDebounce ==
    /\ [](Cardinality(resizeTimers) <= 1)
    /\ [][op' = "resizeTimeout"
            => (resizeTimers = {ResizeDelay} /\ resizeTimers' = {})]_vars

\* A resize event has arrived less than 250 ms after the previous one and
\* has replaced its timer, after an earlier burst has moved the walls.
C23_Witness ==
    /\ op = "resize" /\ resizeCleared
    /\ resizeTimers = {ResizeDelay}
    /\ walls # SetupWalls

\* C24: once the callback of the resize timer has run, the ground, the left
\* and the right wall have the position and the size that walls built at
\* setup for a container of the current size would have.
C24_WallGeometry == [](op = "resizeTimeout" => walls = BuildWalls(clientSize))

\* C26: checkReset resets a body only if its position.y exceeds the
\* container's current height plus 100, whether or not a resize has changed
\* the height and moved the ground.
C26_ResetOutOfView ==
    [][op' = "checkReset"
         => \A b \in Bodies :
               bodies'[b] # bodies[b] => bodies[b].y > clientSize.h + ResetMargin]_vars

\* C25: every blink tick flips whether the cursor is shown and changes
\* neither the phrase index, the character count nor the deleting flag; no
\* typewriter step changes the cursor's visibility.
C25_CursorBlink ==
    /\ [][op' = "blink"
            => (/\ CursorShown(cursorStyle') # CursorShown(cursorStyle)
                /\ UNCHANGED <<phraseIndex, charIndex, isDeleting, textContent>>)]_vars
    /\ [][op' # "blink" => UNCHANGED <<cursorVisible, cursorStyle>>]_vars

\* The cursor has been hidden by a tick while a phrase was partly deleted,
\* and a typewriter step has run since.
C25_Witness ==
    /\ cursorStyle = "hidden"
    /\ isDeleting /\ charIndex > 0
    /\ op # "blink"

\* C30: for every offset and window, both calculateTransform variants return
\* a scale in [0.1, 1] and an opacity in [0, 1], both 1 at progress 0, and
\* neither increases when the offset of the next call for the same window
\* does not decrease.
C30_ScaleOpacity ==
    /\ [](\A t \in {calcResult.transform, calcResult.transform1} :
             /\ FracLe(Frac(1, 10), t.scale) /\ FracLe(t.scale, Frac(1, 1))
             /\ FracLe(Frac(0, 1), t.opacity) /\ FracLe(t.opacity, Frac(1, 1))
             /\ (t.progress.num = 0
                    => FracEq(t.scale, Frac(1, 1)) /\ FracEq(t.opacity, Frac(1, 1))))
    /\ [][calcInput'.scrollPosition >= calcInput.scrollPosition
            => /\ FracLe(calcResult'.transform.scale, calcResult.transform.scale)
               /\ FracLe(calcResult'.transform.opacity, calcResult.transform.opacity)
               /\ FracLe(calcResult'.transform1.scale, calcResult.transform1.scale)
               /\ FracLe(calcResult'.transform1.opacity, calcResult.transform1.opacity)]_vars

\* A call inside a window for which the opacity of script.js is clamped to
\* 0 while its scale is still above 0.1, and part_001 returns a scale and an
\* opacity strictly between their bounds.
C30_Witness ==
    /\ op = "calculate"
    /\ calcResult.transform.opacity.num = 0
    /\ ~FracLe(calcResult.transform.scale, Frac(1, 10))
    /\ ~FracLe(calcResult.transform1.scale, Frac(1, 10))
    /\ ~FracLe(Frac(1, 1), calcResult.transform1.opacity)

\* C28: whenever the scroll offset differs from the one handleScroll used
\* last, a frame callback is pending; so once the pending callback has run
\* and no further scroll event has arrived, the section styles and the
\* try-free class are those of the final offset.
C28_FinalOffset ==
    /\ [](scrollTop # lastScrollTop => scrollFrames >= 1)
    /\ [](scrollFrames = 0
            => /\ sectionStyle = SectionStyles(scrollTop)
               /\ tryFreeVisible = TryFreeVisible(scrollTop))

\* A frame has evaluated the offset of the last of several scroll events,
\* all but the first of which arrived while ticking was true, and the
\* try-free button is shown.
C28_Witness ==
    /\ op = "frame" /\ frameLog.events >= 2
    /\ scrollFrames = 0
    /\ sectionStyle = SectionStyles(scrollTop)
    /\ tryFreeVisible /\ scrollTop > TryFreeThreshold

\* C27: when no timer of updateElement is pending and the latest call was
\* given the current scroll offset, the inline style of the section is the
\* one that offset determines.
C27_StyleOfOffset ==
    []((ueTimers = <<>> /\ ueFades = 0 /\ ueEvaluated = ueScroll)
          => ueStyle = ExpectedStyle(ueSection, ueScroll))

\* C29: whenever the scroll offset differs from the one updateParallax was
\* given last, an updateParallax call with the current offset follows.
C29_OffsetReflected == (ueEvaluated # ueScroll) ~> (ueEvaluated = ueScroll)

(***************************************************************************)
(* Held button, ceiling and upgrade-icon claims                            *)
(***************************************************************************)
\* C31: while the button is held (a pointer-down applied the class and no
\* pointer-up and no pointer-leave has occurred since), the class is on the
\* button and on every descendant; the removal timer of an earlier
\* pointer-up does not strip it.
C31_HeldKeepsClass == [](downLog.held => fastClick = Elements)

\* C32: in the step that adds the ceiling, every sprite body lies below it
\* (position.y > 0).
C32_BodiesBelowCeiling ==
    [][world'.ceilings > world.ceilings => \A b \in Bodies : bodies'[b].y > 0]_vars

\* The calls of initUpgradeAnimation whose animateSequence is between its
\* start and its rescheduling timer.
SequencesInProgress ==
    {i \in Instances : upInst[i].pc \in {"before", "gap", "after", "resched"}}

\* C33: in script2.js at most one animateSequence run is in progress on the
\* page at any time.
C33_SingleLoop ==
    [](upVariant = "script2" => Cardinality(SequencesInProgress) <= 1)

\* C34: while isContainerVisible is false the container holds no upgrade
\* icon; an icon is inserted only in a step in which isContainerVisible is
\* true; the transition to hidden removes every icon present.
C34_NoIconsWhileHidden ==
    /\ [](~isContainerVisible => upDom = {})
    /\ [][upDom' \ upDom # {} => isContainerVisible /\ isContainerVisible']_vars
    /\ [][isContainerVisible /\ ~isContainerVisible' => upDom' = {}]_vars

\* C34 witness: the frame that hid the container has just removed the icons
\* of a sequence whose cleanup timers are still pending.
C34_Witness ==
    /\ op = "upFrame" /\ ~isContainerVisible /\ upDom = {}
    /\ \E i \in Instances : upInst[i].pc = "after" /\ Cardinality(upInst[i].activeIcons) = 2

\* C35: every icon a call of initUpgradeAnimation creates has a number in
\* 1..numIcons (1..3); the first sequence uses 1 and each later sequence the
\* cyclic successor of the number before; the 'before' and 'after' icons of
\* one sequence carry the same number.
C35_IconNumbers ==
    [][\A x \in upDom' \ upDom :
          LET prev == upInst[x.inst].last
          IN  /\ x.number \in 1..3
              /\ (prev = NoIcon => x.type = "before" /\ x.number = 1)
              /\ (prev.type = "before" => x.number = prev.number)
              /\ (prev.type = "after" /\ x.type = "after" => x.number = prev.number)
              /\ (prev.type = "after" /\ x.type = "before"
                     => x.number = (prev.number % 3) + 1)]_vars

(***************************************************************************)
(* Drag flag, background offset and feed image claims                      *)
(***************************************************************************)
\* C36: in part_001, after a canvas mousedown with the pointer inside the
\* container isDragging stays true until the next canvas mouseup or the next
\* mouseleave of the container.  Checked on the step that follows such a
\* mousedown: unless it is a mouseup or a mouseleave it leaves the flag set,
\* so the release timer of an earlier mouseleave does not clear it.
C36_DragFlagLifetime ==
    [][(/\ physVariant = "part_001"
        /\ op = "mousedown" /\ isMouseInContainer /\ isDragging
        /\ op' \notin {"mouseup", "mouseleave"})
          => isDragging']_vars

\* C37: for pointer positions inside the viewport the target and the current
\* background offsets stay within [-maxMovement/2, +maxMovement/2] on both
\* axes, whatever pointer moves, canvas enter and leave events, document
\* leave events and updateParallax frames occur.
C37_OffsetBound ==
    [](\A v \in {targetBackgroundX, targetBackgroundY, currentBackgroundX, currentBackgroundY} :
          2 * Abs(v) <= maxMovement * LerpScale)

\* C37 witness: the target is at the bound on one axis and the current
\* offset has moved towards it by interpolation.
C37_Witness ==
    /\ op = "updateParallax" /\ lerpSteps > 0
    /\ 2 * Abs(targetBackgroundX) = maxMovement * LerpScale
    /\ currentBackgroundX # 0 /\ Abs(currentBackgroundX) < Abs(targetBackgroundX)

\* C38: no feed image ever carries both 'visible' and 'hidden', and the
\* classes of the feed images change only in a handleScroll run at a scroll
\* percentage strictly between 30 and 80.
C38_FeedClasses ==
    /\ [](\A i \in FeedImages : ~({"visible", "hidden"} \subseteq feedClasses[i]))
    /\ [][feedClasses' # feedClasses
             => /\ op' = "feedFrame"
                /\ feedOffset * 100 > 30 * (totalScrollHeight - WindowHeight)
                /\ feedOffset * 100 < 80 * (totalScrollHeight - WindowHeight)]_vars

\* C38 witness: handleScroll has run above the range and left one image
\* visible and another one hidden, as the last run inside the range set
\* them.
C38_Witness ==
    /\ op = "feedFrame" /\ feedOffset * 100 >= 80 * (totalScrollHeight - WindowHeight)
    /\ \E i, j \in FeedImages : feedClasses[i] = {"visible"} /\ feedClasses[j] = {"hidden"}

\* C39: for every feed image there is a scroll offset with a percentage
\* inside (30, 80) at which handleScroll gives it the class 'visible', that
\* is, its imageScrollStart is smaller than its imageScrollEnd.
C39_EveryImageVisible ==
    [](\A i \in DOMAIN feedClasses :
          /\ imageScrollStart(i) < imageScrollEnd(i)
          /\ \E y \in 0..(totalScrollHeight - WindowHeight) :
                "visible" \in FeedClassesAfter(y, feedClasses)[i])

====
